---- MODULE Spec2Model ----
(***************************************************************************)
(* Model of ts-promise: the Promise state machine (src/lib/Promise.ts) on  *)
(* top of the Async call queue (src/lib/async.ts).                         *)
(*                                                                         *)
(* User code (the program that uses the library, and the callbacks it      *)
(* passes to then()/done()) is the environment: it may call the library    *)
(* at top level or from inside a running callback.  A then()/done()        *)
(* callback is therefore modelled as two steps: the step that invokes it   *)
(* (FlushStep) and the step in which it returns or throws                  *)
(* (CallbackReturn / CallbackThrow); every library call made in between    *)
(* is a reentrant call.                                                    *)
(***************************************************************************)
EXTENDS Integers, Sequences, FiniteSets, TLC

\* ------------------------------------------------------------------ bounds
MaxOps == 4           \* library calls made by user code in one behaviour
MaxQueue == 2         \* callbacks a CallQueue holds (_max / 2, scaled down from 500)

\* ------------------------------------------------------------------ values
Val(n) == [t |-> "val", n |-> n]
Err(n) == [t |-> "err", n |-> n]
PromiseRef(p) == [t |-> "promise", n |-> p]
Thenable(k) == [t |-> "thenable", n |-> k]
Undefined == Val(0)
UnhandledRejection(reason) == [t |-> "UnhandledRejection", n |-> reason]
TypeErrorSelf == Err(0)      \* new TypeError("cannot resolve Promise to self")
NotFulfilled == Err(4)       \* new Error("Promise is not fulfilled")
NotRejected == Err(5)        \* new Error("Promise is not rejected")
Bool(b) == [t |-> "bool", n |-> IF b THEN 1 ELSE 0]
\* The `result` array of the call of Promise.all that made promise p; the
\* array itself is all[p].result.
ArrayRef(p) == [t |-> "array", n |-> p]

PlainValues == {Val(0), Val(1)}     \* a falsy and a truthy value
Reasons == {Err(1), Err(2)}         \* reasons given to reject()
Thrown == {Err(3)}                  \* errors thrown by callbacks

\* A foreign thenable is identified by what its `then` does when called:
\* reading the property may throw; otherwise `then` makes a sequence of
\* synchronous calls to resolvePromise ("res") / rejectPromise ("rej") and
\* then returns or throws.  The functions it was handed stay callable later.
ThenScripts == <<
    [getThrows |-> TRUE,  calls |-> <<>>,             throws |-> FALSE],
    [getThrows |-> FALSE, calls |-> <<>>,             throws |-> FALSE],
    [getThrows |-> FALSE, calls |-> <<>>,             throws |-> TRUE],
    [getThrows |-> FALSE, calls |-> <<"res">>,        throws |-> TRUE],
    [getThrows |-> FALSE, calls |-> <<"rej">>,        throws |-> TRUE],
    [getThrows |-> FALSE, calls |-> <<"res", "rej">>, throws |-> FALSE],
    [getThrows |-> FALSE, calls |-> <<"rej", "res">>, throws |-> FALSE] >>
Thenables == { Thenable(k) : k \in 1..Len(ThenScripts) }
\* The resolver given to the constructor, likewise: the calls it makes to
\* resolve / reject while it runs, and whether it then throws.
ResolverScripts == { ThenScripts[k] : k \in 2..Len(ThenScripts) }
ResVal == Val(1)        \* value a script passes to resolve
RejVal == Err(1)        \* reason a script passes to reject
ThrowVal == Err(2)      \* error a script throws

IsFalsy(x) == x.t = "val" /\ x.n = 0

\* ------------------------------------------------------------------ state
VARIABLES
    nextId,          \* promiseIdCounter: promises constructed so far
    state,           \* Promise._state
    result,          \* Promise._result
    handlers,        \* Promise._handlers (<<>> for undefined)
    flags,           \* Promise._flags
    ctor,            \* the promise was built with a resolver: its resolve/reject closures exist
    called,          \* `called` of the constructor's closures
    thenCalled,      \* `called` of _followThenable's closures: "none", "open", "called"
    mainRing,        \* Async._mainRing, as the sequence of queued calls
    idleRing,        \* Async._idleRing
    flushing,        \* Async._flushing
    scheduled,       \* Async._scheduled
    outstanding,     \* flushers handed to the host scheduler that have not run yet
    unwrapping,      \* unwrappingPromise (0 for undefined)
    running,         \* the Handler whose callback is executing (id 0: none)
    throwing,        \* Promise._onUnhandledRejectionHandler is the default, which throws
    nextH,           \* Handler records created so far
    nOps,            \* library calls made by user code so far (bounded by MaxOps)
    consumed,        \* history: Handler ids in the order _unwrap processed them
    invoked,         \* history: callbacks invoked, in order
    outcome,         \* history: what each invoked callback did
    first,           \* history: the first event on each promise's resolve/reject closures
    tfirst,          \* history: the first event on the closures handed to a thenable
    unhandled,       \* history: reasons given to the unhandled-rejection handler
    escaped,         \* history: the exceptions that left a call of Async.flush
    enq,             \* history: how each callback of user code was given to Async
    suppressed,      \* history: promises given suppressUnhandledRejections()
    seen,            \* history: what the inspection methods returned or threw
    all,             \* per promise of Promise.all: its inputs, `result`, `remaining`
    follow,          \* per Handler of Promise.all's follow(): the promise and the index
    rejectedOrder,   \* history: deferreds in the order in which they were rejected
    race,            \* per promise of Promise.race: its inputs and the promises followed
    settledOrder,    \* history: deferreds in the order in which they were settled
    closure,         \* per Handler whose callbacks are closures of finally() / return()
    longTraces,      \* longTraces of Promise.ts
    traceLimit,      \* Trace.traceLimit
    traces,          \* the Trace objects made so far; the Stack of a Trace is named by its index
    ptrace,          \* Promise._trace (0 for undefined)
    callQueues,      \* Ring model: every CallQueue made so far
    rings,           \* Ring model: Async._mainRing, Async._idleRing
    pool,            \* Ring model: Async._pool
    notified,        \* history: possibly-unhandled / handled notifications
    failed           \* an assert() of the library failed

vars == << nextId, state, result, handlers, flags, ctor, called, thenCalled,
           mainRing, idleRing, flushing, scheduled, outstanding, unwrapping,
           running, throwing, nextH, nOps, consumed, invoked, outcome,
           first, tfirst, unhandled, escaped, enq, suppressed,
           seen, all, follow, rejectedOrder,
           race,
           settledOrder,
           closure,
           longTraces,
           traceLimit,
           traces,
           ptrace,
           callQueues,
           rings,
           pool, notified, failed >>

\* The state as one record, so that the library's methods are operators from
\* state to state that compose the way the calls nest in the code.  `exc` is
\* not state: it marks, within one step, that an exception is propagating,
\* and `err` is that exception; `ret` is the value a method returns.
Cur == [ nextId |-> nextId, state |-> state, result |-> result,
         handlers |-> handlers, flags |-> flags, ctor |-> ctor, called |-> called,
         thenCalled |-> thenCalled, mainRing |-> mainRing, idleRing |-> idleRing,
         flushing |-> flushing, scheduled |-> scheduled,
         outstanding |-> outstanding, unwrapping |-> unwrapping,
         running |-> running, throwing |-> throwing, nextH |-> nextH,
         nOps |-> nOps, consumed |-> consumed,
         invoked |-> invoked, outcome |-> outcome, first |-> first,
         tfirst |-> tfirst,
         unhandled |-> unhandled, escaped |-> escaped, enq |-> enq,
         suppressed |-> suppressed, seen |-> seen, all |-> all,
         follow |-> follow, rejectedOrder |-> rejectedOrder,
         race |-> race,
         settledOrder |-> settledOrder,
         closure |-> closure,
         longTraces |-> longTraces,
         traceLimit |-> traceLimit,
         traces |-> traces,
         ptrace |-> ptrace,
         callQueues |-> callQueues,
         rings |-> rings,
         pool |-> pool,
         notified |-> notified,
         failed |-> failed, exc |-> FALSE, err |-> Undefined,
         ret |-> Undefined ]

Commit(s) ==
    /\ nextId' = s.nextId /\ state' = s.state /\ result' = s.result
    /\ handlers' = s.handlers /\ flags' = s.flags /\ ctor' = s.ctor
    /\ called' = s.called /\ thenCalled' = s.thenCalled
    /\ mainRing' = s.mainRing /\ idleRing' = s.idleRing
    /\ flushing' = s.flushing /\ scheduled' = s.scheduled
    /\ outstanding' = s.outstanding /\ unwrapping' = s.unwrapping
    /\ running' = s.running /\ throwing' = s.throwing /\ nextH' = s.nextH
    /\ nOps' = s.nOps /\ consumed' = s.consumed
    /\ invoked' = s.invoked /\ outcome' = s.outcome /\ first' = s.first
    /\ tfirst' = s.tfirst
    /\ unhandled' = s.unhandled /\ escaped' = s.escaped /\ enq' = s.enq
    /\ suppressed' = s.suppressed /\ seen' = s.seen
    /\ all' = s.all /\ follow' = s.follow /\ rejectedOrder' = s.rejectedOrder
    /\ race' = s.race
    /\ settledOrder' = s.settledOrder
    /\ closure' = s.closure
    /\ longTraces' = s.longTraces
    /\ traceLimit' = s.traceLimit
    /\ traces' = s.traces
    /\ ptrace' = s.ptrace
    /\ callQueues' = s.callQueues
    /\ rings' = s.rings
    /\ pool' = s.pool
    /\ notified' = s.notified
    /\ failed' = s.failed

NoHandler == [ id |-> 0, promise |-> 0, onFulfilled |-> FALSE, onRejected |-> FALSE,
               slave |-> 0, done |-> FALSE ]
NoEvent == [ kind |-> "none", v |-> Undefined ]
\* A promise that Promise.all did not make.  For one it made: the inputs as
\* given, the promise followed for each (history), how many deferreds had
\* been rejected at the call (history), and the closure's two variables.
NoAll == [ made |-> FALSE, thenables |-> <<>>, slaves |-> <<>>, before |-> 0,
           result |-> <<>>, remaining |-> 0 ]
\* A promise that Promise.race did not make.  For one it made: the inputs as
\* given, `slave` of each (history), and the indices of the inputs that
\* were settled at the call (history).
NoRace == [ made |-> FALSE, thenables |-> <<>>, slaves |-> <<>>, early |-> {} ]
\* A Handler whose callbacks user code gave.  For the `runner` of finally()
\* and the closure of return(): the value it captured, and as history the
\* promise that finally() returned and the argument the handler was given.
NoClosure == [ kind |-> "none", v |-> Undefined, out |-> 0, arg |-> Undefined ]
Event(kind, v) == [ kind |-> kind, v |-> v ]

\* Flags
RejectionHandled == "RejectionHandled"
UnhandledRejectionNotified == "UnhandledRejectionNotified"

\* assert(condition) throws when the condition is false; the model records
\* that an assertion failed and leaves the state as it was.
Fail(s) == [s EXCEPT !.failed = TRUE]

\* ------------------------------------------------------------------ Async
\* new CallQueue(): `items` holds the pairs pushed since the last reset
\* (length / 2 of them), `first` counts the pairs already taken (_first / 2).
\* `reused` is history: the queue came out of the pool at least once.
NewCallQueue == [ items |-> <<>>, first |-> 0, reused |-> FALSE ]

\* new Ring(pool), its first CallQueue being number q.
NewRing(q) == [ ring |-> << q >>, current |-> q ]

\* A queued call: callback and argument (a Handler, or a promise).
Call(cb, h, p) == [cb |-> cb, h |-> h, p |-> p]

Async_schedule(s) ==
    IF s.scheduled THEN Fail(s)
    ELSE [s EXCEPT !.scheduled = TRUE, !.outstanding = @ + 1]

\* Faulty enqueue, for comparison: it schedules a flush whenever none is in
\* progress, and hands out a flusher without looking at `scheduled`.
Async_enqueue_reschedule(s, c) ==
    LET s1 == IF ~s.flushing
              THEN [s EXCEPT !.scheduled = TRUE, !.outstanding = @ + 1] ELSE s
    IN  [s1 EXCEPT !.mainRing = Append(@, c)]

\* Faulty enqueue, for comparison: the new call goes in front of the queue.
Async_enqueue_front(s, c) ==
    LET s1 == IF ~s.flushing /\ ~s.scheduled THEN Async_schedule(s) ELSE s
    IN  [s1 EXCEPT !.mainRing = <<c>> \o @]

Async_enqueue(s, c) ==
    LET s1 == IF ~s.flushing /\ ~s.scheduled THEN Async_schedule(s) ELSE s
    IN  [s1 EXCEPT !.mainRing = Append(@, c)]

\* Faulty enqueueIdle, for comparison: the callback joins the normal ones.
Async_enqueueIdle_asNormal(s, c) ==
    Async_enqueue(s, c)

\* Faulty enqueueIdle, for comparison: it never schedules a flush.
Async_enqueueIdle_noSchedule(s, c) ==
    [s EXCEPT !.idleRing = Append(@, c)]

Async_enqueueIdle(s, c) ==
    LET s1 == IF ~s.flushing /\ ~s.scheduled THEN Async_schedule(s) ELSE s
    IN  [s1 EXCEPT !.idleRing = Append(@, c)]

\* Faulty `finally`, for comparison: it does not schedule a flush for what
\* is left in the queues.
Async_flushFinally_noReschedule(s) ==
    [s EXCEPT !.flushing = FALSE]

\* Faulty `finally`, for comparison: it also resets the two queues.
Async_flushFinally_reset(s) ==
    [s EXCEPT !.flushing = FALSE, !.mainRing = <<>>, !.idleRing = <<>>]

\* Faulty `finally`, for comparison: it undoes the swap of the rings, so that
\* what is left of a batch of idle callbacks is an idle ring again.
Async_flushFinally_swapBack(s) ==
    LET s1 == [s EXCEPT !.flushing = FALSE, !.mainRing = s.idleRing,
                        !.idleRing = s.mainRing]
    IN  IF (s1.mainRing # <<>> \/ s1.idleRing # <<>>) /\ ~s1.scheduled
        THEN Async_schedule(s1) ELSE s1

\* The `finally` of Async.flush.
Async_flushFinally(s) ==
    LET s1 == [s EXCEPT !.flushing = FALSE]
    IN  IF (s1.mainRing # <<>> \/ s1.idleRing # <<>>) /\ ~s1.scheduled
        THEN Async_schedule(s1) ELSE s1

\* Faulty loop, for comparison: it moves one idle callback at a time to the
\* main ring instead of swapping the rings.
Async_flushLoop_oneIdle(s) ==
    IF s.mainRing # <<>> THEN s
    ELSE IF s.idleRing = <<>> THEN Async_flushFinally(s)
    ELSE [s EXCEPT !.mainRing = <<Head(s.idleRing)>>, !.idleRing = Tail(@)]

\* Faulty loop, for comparison: it stops when the main ring is drained.
Async_flushLoop_mainOnly(s) ==
    IF s.mainRing # <<>> THEN s ELSE Async_flushFinally(s)

\* The loop of Async.flush between two callbacks: with the main ring drained,
\* stop when the idle ring is empty too, otherwise swap the rings.
Async_flushLoop(s) ==
    IF s.mainRing # <<>> THEN s
    ELSE IF s.idleRing = <<>> THEN Async_flushFinally(s)
    ELSE [s EXCEPT !.mainRing = s.idleRing, !.idleRing = <<>>]

\* Faulty version, for comparison: the loop goes on after an exception.
Async_flushNext_goOn(s) ==
    IF s.running.id # 0 THEN s
    ELSE Async_flushLoop([s EXCEPT !.exc = FALSE])

\* What follows a queued call inside Async.flush: an exception leaves flush()
\* through its `finally`; a user callback that was entered is still running;
\* otherwise the loop goes on.
Async_flushNext(s) ==
    IF s.exc THEN Async_flushFinally([s EXCEPT !.exc = FALSE,
                                               !.escaped = Append(@, s.err)])
    ELSE IF s.running.id # 0 THEN s
    ELSE Async_flushLoop(s)

\* ------------------------------------------------------------------ Trace
\* new Trace(): `sources` is undefined (set FALSE).  `cut` is history: the
\* last setSource on this Trace truncated the list.
Trace_new(s) ==
    [s EXCEPT !.traces = Append(@, [sources |-> <<>>, set |-> FALSE, cut |-> FALSE])]

\* Faulty setSource, for comparison: the list is never truncated.
Trace_setSource_noLimit(s, this, source) ==
    LET src == s.traces[source]
    IN  [s EXCEPT !.traces[this] =
            [ sources |-> IF ~src.set THEN <<source>> ELSE Append(src.sources, source),
              set |-> TRUE, cut |-> FALSE ]]

\* this.setSource(source): source.sources.concat(source.stack), and
\* slice(0, Trace.traceLimit) of that when it is longer than the limit.
Trace_setSource(s, this, source) ==
    LET src == s.traces[source]
        flat == Append(src.sources, source)
    IN  [s EXCEPT !.traces[this] =
            IF ~src.set
            THEN [ sources |-> <<source>>, set |-> TRUE, cut |-> FALSE ]
            ELSE IF Len(flat) > s.traceLimit
                 THEN [ sources |-> SubSeq(flat, 1, s.traceLimit), set |-> TRUE,
                        cut |-> TRUE ]
                 ELSE [ sources |-> flat, set |-> TRUE, cut |-> FALSE ]]

\* ------------------------------------------------------------------ Promise
\* Every library call of user code constructs at most one promise and one
\* Handler, and so does every return of a callback.
PromiseSlots == 1..(2 * MaxOps + 1)
HandlerSlots == 1..(2 * MaxOps + 1)

\* this._setSource(source)
Promise_setSource(s, this, source) ==
    IF s.ptrace[this] = 0 \/ s.ptrace[source] = 0 THEN s
    ELSE Trace_setSource(s, s.ptrace[this], s.ptrace[source])

\* The constructor's first lines, for the new promise p: with long traces on
\* it gets a Trace, whose source is the promise being unwrapped, if any.
Promise_newTrace(s, p) ==
    IF ~s.longTraces THEN s
    ELSE LET s1 == Trace_new(s)
             s2 == [s1 EXCEPT !.ptrace[p] = Len(s1.traces)]
         IN  IF s.unwrapping # 0 THEN Promise_setSource(s2, p, s.unwrapping) ELSE s2

\* new Promise(internalResolver): the new promise is s.nextId + 1.
Promise_internal(s) ==
    Promise_newTrace([s EXCEPT !.nextId = @ + 1], s.nextId + 1)

\* doneTrace of done(): with long traces on, a new Trace whose source is
\* the Trace of `this`, if it has one.
Promise_doneTrace(s, p) ==
    IF ~s.longTraces THEN s
    ELSE LET s1 == Trace_new(s)
         IN  IF s.ptrace[p] # 0 THEN Trace_setSource(s1, Len(s1.traces), s.ptrace[p])
             ELSE s1

\* Faulty _setRejectionHandled, for comparison: it tells nobody.
Promise_setRejectionHandled_quiet(s, p) ==
    [s EXCEPT !.flags[p] = @ \cup {RejectionHandled}]

\* Faulty _setRejectionHandled, for comparison: it tells of every promise
\* that was not handled before, reported or not.
Promise_setRejectionHandled_always(s, p) ==
    LET s1 == IF RejectionHandled \notin s.flags[p]
              THEN Async_enqueue(s, Call("rejectionHandled", NoHandler, p))
              ELSE s
    IN  [s1 EXCEPT !.flags[p] = @ \cup {RejectionHandled}]

Promise_setRejectionHandled(s, p) ==
    LET s1 == IF RejectionHandled \notin s.flags[p]
                 /\ UnhandledRejectionNotified \in s.flags[p]
              THEN Async_enqueue(s, Call("rejectionHandled", NoHandler, p))
              ELSE s
    IN  [s1 EXCEPT !.flags[p] = @ \cup {RejectionHandled}]

\* Faulty check, for comparison: it does not look at RejectionHandled.
Promise_doCheckUnhandledRejection_ignoreHandled(s, p) ==
    IF UnhandledRejectionNotified \notin s.flags[p]
    THEN Async_enqueue([s EXCEPT !.flags[p] = @ \cup {UnhandledRejectionNotified}],
                       Call("possiblyUnhandled", NoHandler, p))
    ELSE s

\* Faulty check, for comparison: it marks the promise and notifies nobody.
Promise_doCheckUnhandledRejection_mute(s, p) ==
    IF RejectionHandled \notin s.flags[p] /\ UnhandledRejectionNotified \notin s.flags[p]
    THEN [s EXCEPT !.flags[p] = @ \cup {UnhandledRejectionNotified}]
    ELSE s

Promise_doCheckUnhandledRejection(s, p) ==
    IF RejectionHandled \notin s.flags[p] /\ UnhandledRejectionNotified \notin s.flags[p]
    THEN Async_enqueue([s EXCEPT !.flags[p] = @ \cup {UnhandledRejectionNotified}],
                       Call("possiblyUnhandled", NoHandler, p))
    ELSE s

RECURSIVE EnqueueHandlers(_, _)
EnqueueHandlers(s, hs) ==
    IF hs = <<>> THEN s
    ELSE EnqueueHandlers(Async_enqueue(s, Call("unwrap", Head(hs), 0)), Tail(hs))

\* Faulty _flush, for comparison: the Handlers are processed at once, on the
\* stack of whoever settled the promise.
RECURSIVE Promise_unwrap(_, _)
RECURSIVE UnwrapAll(_, _)
UnwrapAll(s, hs) ==
    IF hs = <<>> THEN s ELSE UnwrapAll(Promise_unwrap(s, Head(hs)), Tail(hs))

Promise_flush_sync(s, p) ==
    UnwrapAll([s EXCEPT !.handlers[p] = <<>>], s.handlers[p])

\* Faulty _flush, for comparison: one that queues the Handlers last to first,
\* and one that leaves them attached to the promise.
Promise_flush_reversed(s, p) ==
    LET hs == s.handlers[p]
    IN  EnqueueHandlers([s EXCEPT !.handlers[p] = <<>>],
                        [i \in 1..Len(hs) |-> hs[Len(hs) + 1 - i]])

Promise_flush_keep(s, p) ==
    EnqueueHandlers(s, s.handlers[p])

\* Promise._flush: every queued Handler becomes a queued call of its own.
Promise_flush(s, p) ==
    EnqueueHandlers([s EXCEPT !.handlers[p] = <<>>], s.handlers[p])

Promise_fulfill(s, p, value) ==
    IF s.state[p] # "Pending" THEN Fail(s)
    ELSE Promise_flush([s EXCEPT !.state[p] = "Fulfilled", !.result[p] = value], p)

Promise_reject(s, p, reason) ==
    IF s.state[p] # "Pending" THEN Fail(s)
    ELSE LET s1 == [s EXCEPT !.state[p] = "Rejected", !.result[p] = reason]
             s2 == IF RejectionHandled \notin s1.flags[p]
                   THEN Async_enqueueIdle(s1, Call("checker", NoHandler, p))
                   ELSE s1
         IN  Promise_flush(s2, p)

\* Faulty handler, for comparison: it records the reason and never throws.
Promise_onUnhandledRejectionHandler_silent(s, reason) ==
    [s EXCEPT !.unhandled = Append(@, reason)]

\* Promise._onUnhandledRejectionHandler(reason, doneTrace): the default
\* handler throws an UnhandledRejection, any other returns.
Promise_onUnhandledRejectionHandler(s, reason) ==
    [s EXCEPT !.unhandled = Append(@, reason), !.exc = s.throwing,
              !.err = IF s.throwing THEN UnhandledRejection(reason) ELSE @]

\* Promise._unwrap(handler), up to the call of the callback.
Promise_unwrap(s, h) ==
    LET p  == h.promise
        callback == IF s.state[p] = "Fulfilled" THEN h.onFulfilled ELSE h.onRejected
        s0 == [s EXCEPT !.consumed = Append(@, h)]
        enter(u) == IF s0.unwrapping # 0 THEN Fail(s0)
                    ELSE [s0 EXCEPT !.unwrapping = u, !.running = h,
                             !.invoked = Append(@, [ id |-> h.id,
                                 cb |-> IF s.state[p] = "Fulfilled" THEN "F" ELSE "R",
                                 arg |-> s.result[p] ])]
    IN  IF h.done THEN
            IF ~callback THEN
                IF s0.state[p] = "Rejected"
                THEN Promise_onUnhandledRejectionHandler(s0, s0.result[p])
                ELSE s0
            ELSE enter(p)
        ELSE IF callback THEN enter(h.slave)
        ELSE IF s0.state[p] = "Fulfilled"
             THEN Promise_fulfill(s0, h.slave, s0.result[p])
             ELSE Promise_reject(s0, h.slave, s0.result[p])

\* Faulty _enqueue, for comparison: on a settled promise the Handler is
\* processed at once instead of being queued.
Promise_enqueue_sync(s, p, onFulfilled, onRejected, slave, done) ==
    LET h  == [ id |-> s.nextH + 1, promise |-> p, onFulfilled |-> onFulfilled,
                onRejected |-> onRejected, slave |-> slave, done |-> done ]
        s0 == [s EXCEPT !.nextH = @ + 1]
        s1 == IF s0.state[p] # "Pending"
              THEN Promise_unwrap(s0, h)
              ELSE [s0 EXCEPT !.handlers[p] = Append(@, h)]
    IN  Promise_setRejectionHandled(s1, p)

\* Faulty _enqueue, for comparison: a Handler without a rejection callback
\* does not mark the promise as handled.
Promise_enqueue_handledByCatch(s, p, onFulfilled, onRejected, slave, done) ==
    LET h  == [ id |-> s.nextH + 1, promise |-> p, onFulfilled |-> onFulfilled,
                onRejected |-> onRejected, slave |-> slave, done |-> done ]
        s0 == [s EXCEPT !.nextH = @ + 1]
        s1 == IF s0.state[p] # "Pending"
              THEN Async_enqueue(s0, Call("unwrap", h, 0))
              ELSE [s0 EXCEPT !.handlers[p] = Append(@, h)]
    IN  IF onFulfilled /\ ~onRejected THEN s1 ELSE Promise_setRejectionHandled(s1, p)

Promise_enqueue(s, p, onFulfilled, onRejected, slave, done) ==
    LET h  == [ id |-> s.nextH + 1, promise |-> p, onFulfilled |-> onFulfilled,
                onRejected |-> onRejected, slave |-> slave, done |-> done ]
        s0 == [s EXCEPT !.nextH = @ + 1]
        s1 == IF s0.state[p] # "Pending"
              THEN Async_enqueue(s0, Call("unwrap", h, 0))
              ELSE [s0 EXCEPT !.handlers[p] = Append(@, h)]
    IN  Promise_setRejectionHandled(s1, p)

\* Faulty _followPromise, for comparison: the Handler it queues on x is a
\* done() Handler, which has no slave to settle.
Promise_followPromise_noSlave(s, p, x) ==
    IF s.state[p] # "Pending" THEN Fail(s)
    ELSE Promise_enqueue(s, x, FALSE, FALSE, 0, TRUE)

\* this._followPromise(x): `this` (p) waits for x.
Promise_followPromise(s, p, x) ==
    IF s.state[p] # "Pending" THEN Fail(s)
    ELSE Promise_enqueue(s, x, FALSE, FALSE, p, FALSE)

RECURSIVE Promise_resolve(_, _, _)

\* resolvePromise / rejectPromise handed to a foreign thenable's `then`.
ThenableResolveFn(s, p, y) ==
    IF s.thenCalled[p] = "called" THEN s
    ELSE Promise_resolve([s EXCEPT !.thenCalled[p] = "called"], p, y)

ThenableRejectFn(s, p, r) ==
    IF s.thenCalled[p] = "called" THEN s
    ELSE Promise_reject([s EXCEPT !.thenCalled[p] = "called"], p, r)

\* The first event on the closures handed to a thenable (history).
NoteThenable(s, p, ev) ==
    IF s.tfirst[p].kind = "none" THEN [s EXCEPT !.tfirst[p] = ev] ELSE s

RECURSIVE RunThenCalls(_, _, _)
RunThenCalls(s, p, calls) ==
    IF calls = <<>> THEN s
    ELSE RunThenCalls(
            IF Head(calls) = "res"
            THEN ThenableResolveFn(NoteThenable(s, p, Event("resolve", ResVal)), p, ResVal)
            ELSE ThenableRejectFn(NoteThenable(s, p, Event("reject", RejVal)), p, RejVal),
            p, Tail(calls))

\* Faulty _followThenable, for comparison: an exception of `then` rejects
\* the promise whether or not one of the two functions was called.
Promise_followThenable_throwRejects(s, p, k) ==
    IF s.state[p] # "Pending" THEN Fail(s)
    ELSE LET s1 == RunThenCalls([s EXCEPT !.thenCalled[p] = "open"], p,
                                ThenScripts[k].calls)
         IN  IF ~ThenScripts[k].throws THEN s1
             ELSE LET s2 == NoteThenable(s1, p, Event("throw", ThrowVal))
                  IN  [s2 EXCEPT !.thenCalled[p] = "called",
                                 !.state[p] = "Rejected", !.result[p] = ThrowVal]

Promise_followThenable(s, p, k) ==
    IF s.state[p] # "Pending" THEN Fail(s)
    ELSE LET s1 == RunThenCalls([s EXCEPT !.thenCalled[p] = "open"], p,
                                ThenScripts[k].calls)
         IN  IF ~ThenScripts[k].throws THEN s1
             ELSE LET s2 == NoteThenable(s1, p, Event("throw", ThrowVal))
                  IN  IF s2.thenCalled[p] = "called" THEN s2
                      ELSE Promise_reject([s2 EXCEPT !.thenCalled[p] = "called"],
                                          p, ThrowVal)

\* Faulty _resolve, for comparison: it adopts x without taking over the
\* responsibility for its rejection.
Promise_resolve_noTakeover(s, p, x) ==
    IF s.state[p] # "Pending" THEN Fail(s)
    ELSE IF IsFalsy(x) THEN Promise_fulfill(s, p, x)
    ELSE IF x = PromiseRef(p) THEN Promise_reject(s, p, TypeErrorSelf)
    ELSE IF x.t = "promise" THEN
        IF s.state[x.n] = "Pending" THEN Promise_followPromise(s, p, x.n)
        ELSE IF s.state[x.n] = "Fulfilled"
             THEN Promise_fulfill(s, p, s.result[x.n])
             ELSE Promise_reject(s, p, s.result[x.n])
    ELSE IF x.t = "thenable" THEN
        IF ThenScripts[x.n].getThrows THEN Promise_reject(s, p, ThrowVal)
        ELSE Promise_followThenable(s, p, x.n)
    ELSE Promise_fulfill(s, p, x)

\* Faulty _resolve, for comparison: without the check for `this === x`.
Promise_resolve_noSelfCheck(s, p, x) ==
    IF s.state[p] # "Pending" THEN Fail(s)
    ELSE IF IsFalsy(x) THEN Promise_fulfill(s, p, x)
    ELSE IF x.t = "promise" THEN
        LET s1 == Promise_setRejectionHandled(s, x.n)
        IN  IF s1.state[x.n] = "Pending" THEN Promise_followPromise(s1, p, x.n)
            ELSE IF s1.state[x.n] = "Fulfilled"
                 THEN Promise_fulfill(s1, p, s1.result[x.n])
                 ELSE Promise_reject(s1, p, s1.result[x.n])
    ELSE IF x.t = "thenable" THEN
        IF ThenScripts[x.n].getThrows THEN Promise_reject(s, p, ThrowVal)
        ELSE Promise_followThenable(s, p, x.n)
    ELSE Promise_fulfill(s, p, x)

Promise_resolve(s, p, x) ==
    IF s.state[p] # "Pending" THEN Fail(s)
    ELSE IF IsFalsy(x) THEN Promise_fulfill(s, p, x)
    ELSE IF x = PromiseRef(p) THEN Promise_reject(s, p, TypeErrorSelf)
    ELSE IF x.t = "promise" THEN
        LET s1 == Promise_setRejectionHandled(Promise_setSource(s, x.n, p), x.n)
        IN  IF s1.state[x.n] = "Pending" THEN Promise_followPromise(s1, p, x.n)
            ELSE IF s1.state[x.n] = "Fulfilled"
                 THEN Promise_fulfill(s1, p, s1.result[x.n])
                 ELSE Promise_reject(s1, p, s1.result[x.n])
    ELSE IF x.t = "thenable" THEN
        IF ThenScripts[x.n].getThrows THEN Promise_reject(s, p, ThrowVal)
        ELSE Promise_followThenable(s, p, x.n)
    ELSE Promise_fulfill(s, p, x)

\* The first event on a promise's resolve/reject closures (history).
NoteFirst(s, p, ev) ==
    IF s.first[p].kind = "none" THEN [s EXCEPT !.first[p] = ev] ELSE s

\* Faulty closures, for comparison: a resolve that does not count as called
\* when it is given a promise, a resolve without the `called` check, and a
\* reject that writes its reason whatever happened before.
ResolveFn_unlocked(s, p, y) ==
    IF s.called[p] THEN s
    ELSE Promise_resolve([s EXCEPT !.called[p] = (y.t # "promise")], p, y)

ResolveFn_unguarded(s, p, y) ==
    Promise_resolve([s EXCEPT !.called[p] = TRUE], p, y)

RejectFn_overwrite(s, p, r) ==
    [s EXCEPT !.called[p] = TRUE, !.state[p] = "Rejected", !.result[p] = r]

\* The resolve / reject closures the constructor hands to the resolver.
ResolveFn(s, p, y) ==
    IF s.called[p] THEN s
    ELSE Promise_resolve([s EXCEPT !.called[p] = TRUE], p, y)

RejectFn(s, p, r) ==
    IF s.called[p] THEN s
    ELSE Promise_reject([s EXCEPT !.called[p] = TRUE], p, r)

RECURSIVE RunResolverCalls(_, _, _)
RunResolverCalls(s, p, calls) ==
    IF calls = <<>> THEN s
    ELSE RunResolverCalls(
            IF Head(calls) = "res"
            THEN ResolveFn(NoteFirst(s, p, Event("resolve", ResVal)), p, ResVal)
            ELSE RejectFn(NoteFirst(s, p, Event("reject", RejVal)), p, RejVal),
            p, Tail(calls))

\* new Promise(resolver), the resolver behaving as `script`.
Promise_constructor(s, script) ==
    LET p  == s.nextId + 1
        s1 == RunResolverCalls(Promise_newTrace([s EXCEPT !.nextId = p, !.ctor[p] = TRUE], p),
                               p, script.calls)
    IN  IF ~script.throws THEN s1
        ELSE LET s2 == NoteFirst(s1, p, Event("throw", ThrowVal))
             IN  IF s2.called[p] THEN s2
                 ELSE Promise_reject([s2 EXCEPT !.called[p] = TRUE], p, ThrowVal)

\* then() returns `this` when the callback for the settled state is missing.
ThenShortCircuit(s, p, onFulfilled, onRejected) ==
    \/ s.state[p] = "Fulfilled" /\ ~onFulfilled
    \/ s.state[p] = "Rejected" /\ ~onRejected

Promise_then(s, p, onFulfilled, onRejected) ==
    IF ThenShortCircuit(s, p, onFulfilled, onRejected) THEN s
    ELSE LET slave == s.nextId + 1
         IN  Promise_enqueue(Promise_setSource(Promise_internal(s), slave, p), p,
                             onFulfilled, onRejected, slave, FALSE)

Promise_done(s, p, onFulfilled, onRejected) ==
    IF s.state[p] = "Fulfilled" /\ ~onFulfilled THEN s
    ELSE Promise_enqueue(Promise_doneTrace(s, p), p, onFulfilled, onRejected, 0, TRUE)

Promise_isFulfilled(s, p) == [s EXCEPT !.ret = Bool(s.state[p] = "Fulfilled")]
Promise_isRejected(s, p) == [s EXCEPT !.ret = Bool(s.state[p] = "Rejected")]
Promise_isPending(s, p) == [s EXCEPT !.ret = Bool(s.state[p] = "Pending")]

Promise_value(s, p) ==
    IF Promise_isFulfilled(s, p).ret # Bool(TRUE)
    THEN [s EXCEPT !.exc = TRUE, !.err = NotFulfilled]
    ELSE [s EXCEPT !.ret = s.result[p]]

\* Faulty reason(), for comparison: reading the reason counts as handling it.
Promise_reason_handles(s, p) ==
    IF Promise_isRejected(s, p).ret # Bool(TRUE)
    THEN [s EXCEPT !.exc = TRUE, !.err = NotRejected]
    ELSE [Promise_setRejectionHandled(s, p) EXCEPT !.ret = s.result[p]]

Promise_reason(s, p) ==
    IF Promise_isRejected(s, p).ret # Bool(TRUE)
    THEN [s EXCEPT !.exc = TRUE, !.err = NotRejected]
    ELSE [s EXCEPT !.ret = s.result[p]]

Promise_suppressUnhandledRejections(s, p) ==
    Promise_setRejectionHandled(s, p)

\* Promise.resolve(value): the new promise is s.nextId + 1.
Promise_static_resolve(s, value) ==
    Promise_resolve(Promise_internal(s), s.nextId + 1, value)

\* follow(t, index) of Promise.all, for the inputs from `index` on: the input's
\* promise, or Promise.resolve(input), gets a done() Handler whose callbacks
\* are the two closures of follow.
RECURSIVE Promise_all_follow(_, _, _)
Promise_all_follow(s, p, index) ==
    IF index > Len(s.all[p].thenables) THEN s
    ELSE LET t  == s.all[p].thenables[index]
             s1 == IF t.t = "promise" THEN s ELSE Promise_static_resolve(s, t)
             slave == IF t.t = "promise" THEN t.n ELSE s1.nextId
             s2 == Promise_done(s1, slave, TRUE, TRUE)
         IN  Promise_all_follow(
                 [s2 EXCEPT !.follow[s2.nextH] = [all |-> p, index |-> index],
                            !.all[p].slaves = Append(@, slave)],
                 p, index + 1)

\* Promise.all(thenables): new Promise(resolver), the resolver being the
\* body of all.
Promise_all(s, thenables) ==
    LET p  == s.nextId + 1
        n  == Len(thenables)
        s0 == Promise_newTrace(
                  [s EXCEPT !.nextId = p, !.ctor[p] = TRUE,
                            !.all[p] = [ made |-> TRUE, thenables |-> thenables,
                                         slaves |-> <<>>,
                                         before |-> Len(s.rejectedOrder),
                                         result |-> [i \in 1..n |-> Undefined],
                                         remaining |-> n ]], p)
    IN  IF n = 0
        THEN ResolveFn(NoteFirst(s0, p, Event("resolve", ArrayRef(p))), p, ArrayRef(p))
        ELSE Promise_all_follow(s0, p, 1)

\* Faulty closure, for comparison: every value goes to the end of `result`.
Promise_all_onFulfilled_push(s, p, index, v) ==
    LET k  == Len(s.all[p].result) + 1 - s.all[p].remaining
        s1 == [s EXCEPT !.all[p].result[k] = v, !.all[p].remaining = @ - 1]
    IN  IF s1.all[p].remaining = 0
        THEN ResolveFn(NoteFirst(s1, p, Event("resolve", ArrayRef(p))), p, ArrayRef(p))
        ELSE s1

\* The fulfillment callback of follow(t, index).
Promise_all_onFulfilled(s, p, index, v) ==
    LET s1 == [s EXCEPT !.all[p].result[index] = v, !.all[p].remaining = @ - 1]
    IN  IF s1.all[p].remaining = 0
        THEN ResolveFn(NoteFirst(s1, p, Event("resolve", ArrayRef(p))), p, ArrayRef(p))
        ELSE s1

\* Faulty closure, for comparison: the latest rejection wins.
Promise_all_onRejected_last(s, p, reason) ==
    IF s.state[p] = "Fulfilled" THEN s
    ELSE [s EXCEPT !.called[p] = TRUE, !.state[p] = "Rejected", !.result[p] = reason]

\* The rejection callback of follow(t, index).
Promise_all_onRejected(s, p, reason) ==
    RejectFn(NoteFirst(s, p, Event("reject", reason)), p, reason)

\* The body of the loop of Promise.race, for the inputs from `index` on:
\* Promise.resolve(slave), a new promise that adopts the input's promise,
\* gets a done() Handler whose callbacks are the resolve and reject closures
\* of the promise of race.
RECURSIVE Promise_race_loop(_, _, _)
Promise_race_loop(s, p, index) ==
    IF index > Len(s.race[p].thenables) THEN s
    ELSE LET t  == s.race[p].thenables[index]
             s1 == IF t.t = "promise" THEN s ELSE Promise_static_resolve(s, t)
             slave == IF t.t = "promise" THEN t.n ELSE s1.nextId
             s2 == Promise_static_resolve(s1, PromiseRef(slave))
             s3 == Promise_done(s2, s2.nextId, TRUE, TRUE)
         IN  Promise_race_loop(
                 [s3 EXCEPT !.follow[s3.nextH] = [all |-> p, index |-> index],
                            !.race[p].slaves = Append(@, slave),
                            !.race[p].early =
                                IF s1.state[slave] = "Pending" THEN @
                                ELSE @ \cup {index}],
                 p, index + 1)

\* Promise.race(thenables): new Promise(resolver), the resolver being the
\* body of race.
Promise_race(s, thenables) ==
    LET p  == s.nextId + 1
        s0 == Promise_newTrace(
                  [s EXCEPT !.nextId = p, !.ctor[p] = TRUE,
                            !.race[p] = [ made |-> TRUE, thenables |-> thenables,
                                          slaves |-> <<>>, early |-> {} ]], p)
    IN  Promise_race_loop(s0, p, 1)

\* Faulty callbacks, for comparison: the latest settlement wins.
Promise_race_settle_last(s, p, fulfilled, v) ==
    [s EXCEPT !.called[p] = TRUE,
              !.state[p] = IF fulfilled THEN "Fulfilled" ELSE "Rejected",
              !.result[p] = v]

\* done(resolve, reject) of Promise.race: the callback that runs for a
\* followed promise that is fulfilled with v, or rejected with v.
Promise_race_settle(s, p, fulfilled, v) ==
    IF fulfilled
    THEN ResolveFn(NoteFirst(s, p, Event("resolve", v)), p, v)
    ELSE RejectFn(NoteFirst(s, p, Event("reject", v)), p, v)

\* p.return(value), value not undefined: this.then(() => value).
Promise_return(s, p, value) ==
    LET s1 == Promise_then(s, p, TRUE, FALSE)
    IN  IF ThenShortCircuit(s, p, TRUE, FALSE) THEN s1
        ELSE [s1 EXCEPT !.closure[s1.nextH] = [NoClosure EXCEPT !.kind = "return", !.v = value]]

\* Faulty finally(), for comparison: the result is the promise of the
\* handler's outcome.
Promise_finally_handlerResult(s, p) ==
    LET s1 == Promise_then(s, p, TRUE, TRUE)
    IN  [s1 EXCEPT !.closure[s1.nextH] =
                       [NoClosure EXCEPT !.kind = "runner", !.v = PromiseRef(p),
                                         !.out = s1.nextId],
                   !.ret = PromiseRef(s1.nextId)]

\* p.finally(handler): this.then(runner, runner).return(this).
Promise_finally(s, p) ==
    LET s1 == Promise_then(s, p, TRUE, TRUE)
        s2 == [s1 EXCEPT !.closure[s1.nextH] =
                             [NoClosure EXCEPT !.kind = "runner", !.v = PromiseRef(p)]]
        s3 == Promise_return(s2, s1.nextId, PromiseRef(p))
    IN  [s3 EXCEPT !.closure[s1.nextH].out = s3.nextId, !.ret = PromiseRef(s3.nextId)]

\* Faulty runner, for comparison: the handler gets what then() gave runner.
Promise_finally_runner_passResult(s, h) ==
    [s EXCEPT !.closure[h.id].arg = s.result[h.promise]]

\* runner = () => handler(this): the argument of the handler (history).
Promise_finally_runner(s, h) ==
    [s EXCEPT !.closure[h.id].arg = s.closure[h.id].v]

\* Faulty version, for comparison: the result of a done() callback is
\* dropped, whatever it is.
Promise_unwrapReturn_dropResult(s, h, v) ==
    IF h.done THEN [s EXCEPT !.unwrapping = 0]
    ELSE [Promise_resolve(s, h.slave, v) EXCEPT !.unwrapping = 0]

\* Faulty version, for comparison: the slave is fulfilled with whatever the
\* callback returned, promise or not.
Promise_unwrapReturn_noAdopt(s, h, v) ==
    IF h.done THEN
        LET s1 == IF IsFalsy(v) THEN s
                  ELSE IF v.t = "promise" THEN Promise_done(s, v.n, FALSE, FALSE)
                  ELSE Promise_done(Promise_static_resolve(s, v), s.nextId + 1, FALSE, FALSE)
        IN  [s1 EXCEPT !.unwrapping = 0]
    ELSE [Promise_fulfill(s, h.slave, v) EXCEPT !.unwrapping = 0]

\* The rest of Promise._unwrap(handler) when the callback returned `v`.
Promise_unwrapReturn(s, h, v) ==
    IF h.done THEN
        LET s1 == IF IsFalsy(v) THEN s
                  ELSE IF v.t = "promise" THEN Promise_done(s, v.n, FALSE, FALSE)
                  ELSE Promise_done(Promise_static_resolve(s, v), s.nextId + 1, FALSE, FALSE)
        IN  [s1 EXCEPT !.unwrapping = 0]
    ELSE [Promise_resolve(s, h.slave, v) EXCEPT !.unwrapping = 0]

\* Faulty version, for comparison: the catch block leaves unwrappingPromise
\* set.
Promise_unwrapThrow_keep(s, h, e) ==
    IF h.done THEN Promise_onUnhandledRejectionHandler(s, e)
    ELSE Promise_reject(s, h.slave, e)

\* The rest of Promise._unwrap(handler) when the callback threw `e`.
Promise_unwrapThrow(s, h, e) ==
    IF h.done THEN Promise_onUnhandledRejectionHandler([s EXCEPT !.unwrapping = 0], e)
    ELSE [Promise_reject(s, h.slave, e) EXCEPT !.unwrapping = 0]

\* ------------------------------------------------------------------ steps
\* User code runs at top level (no flush on the stack) or inside a callback.
UserCtx == ~flushing \/ running.id # 0
\* A library call that user code may still make.
UserOp(s) == UserCtx /\ nOps < MaxOps /\ s.nOps = nOps + 1
Counted == [Cur EXCEPT !.nOps = @ + 1]

Created == 1..nextId
ResolveInputs == PlainValues \cup { PromiseRef(q) : q \in Created }

Empty ==
    [ nextId |-> 0,
      state |-> [p \in PromiseSlots |-> "Pending"],
      result |-> [p \in PromiseSlots |-> Undefined],
      handlers |-> [p \in PromiseSlots |-> <<>>],
      flags |-> [p \in PromiseSlots |-> {}],
      ctor |-> [p \in PromiseSlots |-> FALSE],
      called |-> [p \in PromiseSlots |-> FALSE],
      thenCalled |-> [p \in PromiseSlots |-> "none"],
      mainRing |-> <<>>, idleRing |-> <<>>,
      flushing |-> FALSE, scheduled |-> FALSE, outstanding |-> 0,
      unwrapping |-> 0, running |-> NoHandler, throwing |-> TRUE,
      nextH |-> 0, nOps |-> 0,
      consumed |-> <<>>, invoked |-> <<>>,
      outcome |-> [h \in HandlerSlots |-> NoEvent],
      first |-> [p \in PromiseSlots |-> NoEvent],
      tfirst |-> [p \in PromiseSlots |-> NoEvent],
      unhandled |-> <<>>, escaped |-> <<>>,
      enq |-> [h \in HandlerSlots |-> [idle |-> FALSE, at |-> 0, by |-> 0]],
      suppressed |-> {}, seen |-> <<>>,
      all |-> [p \in PromiseSlots |-> NoAll],
      follow |-> [h \in HandlerSlots |-> [all |-> 0, index |-> 0]],
      rejectedOrder |-> <<>>,
      race |-> [p \in PromiseSlots |-> NoRace],
      settledOrder |-> <<>>,
      closure |-> [h \in HandlerSlots |-> NoClosure],
      longTraces |-> FALSE,
      traceLimit |-> 10,
      traces |-> <<>>,
      ptrace |-> [p \in PromiseSlots |-> 0],
      callQueues |-> << NewCallQueue, NewCallQueue >>,
      rings |-> [ main |-> NewRing(1), idle |-> NewRing(2) ],
      pool |-> <<>>,
      notified |-> <<>>,
      failed |-> FALSE, exc |-> FALSE, err |-> Undefined, ret |-> Undefined ]

StartIn(s) ==
    /\ nextId = s.nextId /\ state = s.state /\ result = s.result
    /\ handlers = s.handlers /\ flags = s.flags /\ ctor = s.ctor
    /\ called = s.called /\ thenCalled = s.thenCalled
    /\ mainRing = s.mainRing /\ idleRing = s.idleRing
    /\ flushing = s.flushing /\ scheduled = s.scheduled
    /\ outstanding = s.outstanding /\ unwrapping = s.unwrapping
    /\ running = s.running /\ throwing = s.throwing /\ nextH = s.nextH
    /\ nOps = s.nOps /\ consumed = s.consumed
    /\ invoked = s.invoked /\ outcome = s.outcome /\ first = s.first
    /\ tfirst = s.tfirst
    /\ unhandled = s.unhandled /\ escaped = s.escaped /\ enq = s.enq
    /\ suppressed = s.suppressed /\ seen = s.seen
    /\ all = s.all /\ follow = s.follow /\ rejectedOrder = s.rejectedOrder
    /\ race = s.race
    /\ settledOrder = s.settledOrder
    /\ closure = s.closure
    /\ longTraces = s.longTraces
    /\ traceLimit = s.traceLimit
    /\ traces = s.traces
    /\ ptrace = s.ptrace
    /\ callQueues = s.callQueues
    /\ rings = s.rings
    /\ pool = s.pool
    /\ notified = s.notified
    /\ failed = s.failed

Init == StartIn(Empty)

\* new Promise(resolver); Promise.defer() is the resolver that only keeps
\* the two closures.
Construct(script) ==
    /\ UserOp(Counted)
    /\ Commit(Promise_constructor(Counted, script))

\* A call of the resolve closure of promise p, after construction.
ResolveCall(p, x) ==
    /\ UserOp(Counted) /\ ctor[p]
    /\ Commit(ResolveFn(NoteFirst(Counted, p, Event("resolve", x)), p, x))

\* A call of the reject closure of promise p, after construction.
RejectCall(p, r) ==
    /\ UserOp(Counted) /\ ctor[p]
    /\ Commit(RejectFn(NoteFirst(Counted, p, Event("reject", r)), p, r))

\* A foreign thenable calls, after its `then` returned, one of the functions
\* it was handed for promise p.
ThenableCall(p, kind) ==
    /\ UserOp(Counted) /\ thenCalled[p] # "none"
    /\ Commit(IF kind = "res"
              THEN ThenableResolveFn(NoteThenable(Counted, p, Event("resolve", ResVal)),
                                     p, ResVal)
              ELSE ThenableRejectFn(NoteThenable(Counted, p, Event("reject", RejVal)),
                                    p, RejVal))

\* p.then(onFulfilled, onRejected); a then() that returns `this` makes no step.
Then(p, onFulfilled, onRejected) ==
    /\ UserOp(Counted)
    /\ Commit(Promise_then(Counted, p, onFulfilled, onRejected))

Done(p, onFulfilled, onRejected) ==
    /\ UserOp(Counted)
    /\ Commit(Promise_done(Counted, p, onFulfilled, onRejected))

\* Promise.onUnhandledRejection(true | a handler that returns)
OnUnhandledRejection(b) ==
    /\ UserOp(Counted) /\ b # throwing
    /\ Commit([Counted EXCEPT !.throwing = b])

\* Async.flush up to its first callback.
Async_flush(s) ==
    Async_flushLoop([s EXCEPT !.flushing = TRUE])

\* Faulty entry of flush, for comparison: without the assertion.
Async_flushEntry_noAssert(s) ==
    Async_flush(s)

\* Async.flush from its first line: assert(!this._flushing) comes before the
\* `try`, so a recursive call throws and touches nothing.
Async_flushEntry(s) ==
    IF s.flushing THEN Fail(s) ELSE Async_flush(s)

\* Promise.flush() at top level.
Flush ==
    /\ ~flushing
    /\ Commit(Async_flush(Cur))

\* The host runs the flusher it was handed: Async._scheduledFlush.
ScheduledFlush ==
    /\ outstanding > 0 /\ ~flushing
    /\ Commit(Async_flush([Cur EXCEPT !.scheduled = FALSE, !.outstanding = @ - 1]))

\* CallQueue.flush takes the next queued call and calls it: a Handler to
\* unwrap, a rejection check, a notification, or (cb "user") a callback that
\* user code gave to Async.enqueue / enqueueIdle itself.
RunCall(s, c) ==
    IF c.cb = "unwrap" THEN Promise_unwrap(s, c.h)
    ELSE IF c.cb = "checker" THEN Promise_doCheckUnhandledRejection(s, c.p)
    ELSE IF c.cb = "user"
    THEN [s EXCEPT !.running = c.h,
                   !.invoked = Append(@, [id |-> c.h.id, cb |-> "U", arg |-> Undefined])]
    ELSE [s EXCEPT !.notified = Append(@, [kind |-> c.cb, p |-> c.p])]

FlushStep ==
    /\ flushing /\ running.id = 0 /\ mainRing # <<>>
    /\ Commit(Async_flushNext(RunCall([Cur EXCEPT !.mainRing = Tail(@)], Head(mainRing))))

CallbackReturn(v) ==
    /\ running.id # 0
    /\ LET s0 == [Cur EXCEPT !.running = NoHandler,
                             !.outcome[running.id] = Event("return", v)]
       IN  Commit(Async_flushNext(Promise_unwrapReturn(s0, running, v)))

CallbackThrow(e) ==
    /\ running.id # 0
    /\ LET s0 == [Cur EXCEPT !.running = NoHandler,
                             !.outcome[running.id] = Event("throw", e)]
       IN  Commit(Async_flushNext(Promise_unwrapThrow(s0, running, e)))

Defer == ThenScripts[2]

\* The callbacks given to then() / done(): both or none, or only one of them.
Callbacks == { <<TRUE, TRUE>>, <<FALSE, FALSE>> }
OneCallback == { <<TRUE, FALSE>>, <<FALSE, TRUE>> }
\* Thenables that callbacks return: one that resolves (and then throws), one
\* that rejects (and then resolves).
ReturnThenables == { Thenable(4), Thenable(7) }

\* The library used through deferreds, then() and done(), by user code at top
\* level and inside callbacks.
Next ==
    \/ Construct(Defer)
    \/ \E p \in Created, x \in ResolveInputs : ResolveCall(p, x)
    \/ \E p \in Created : RejectCall(p, RejVal)
    \/ \E p \in Created, c \in Callbacks : Then(p, c[1], c[2])
    \/ \E p \in Created, c \in Callbacks : Done(p, c[1], c[2])
    \/ Flush
    \/ ScheduledFlush
    \/ FlushStep
    \/ \E v \in ResolveInputs : CallbackReturn(v)
    \/ \E e \in Thrown : CallbackThrow(e)

Spec == Init /\ [][Next]_vars

\* Chains of then() with one callback each, whose callbacks return values,
\* promises and thenables, or throw.
NextThen ==
    \/ Construct(Defer)
    \/ \E p \in Created, x \in ResolveInputs : ResolveCall(p, x)
    \/ \E p \in Created, r \in Reasons : RejectCall(p, r)
    \/ \E p \in Created, c \in OneCallback : Then(p, c[1], c[2])
    \/ Flush
    \/ ScheduledFlush
    \/ FlushStep
    \/ \E v \in ResolveInputs \cup ReturnThenables : CallbackReturn(v)
    \/ \E e \in Thrown : CallbackThrow(e)

SpecThen == Init /\ [][NextThen]_vars

\* Promises settled through their closures only: resolvers that call and
\* throw, adoption of promises, foreign thenables.
NextCalls ==
    \/ \E sc \in ResolverScripts : Construct(sc)
    \/ \E p \in Created, x \in ResolveInputs \cup Thenables : ResolveCall(p, x)
    \/ \E p \in Created, r \in Reasons : RejectCall(p, r)
    \/ \E p \in Created, k \in {"res", "rej"} : ThenableCall(p, k)
    \/ Flush
    \/ ScheduledFlush
    \/ FlushStep

SpecCalls == Init /\ [][NextCalls]_vars

\* The program of test "calls then()'s in a logical order":
\*   p.then(h1).done(h3); p.then(h2).done(h4);
\* promise 1 is p, Handlers 1, 2, 3, 4 are h1, h3, h2, h4.
Wave ==
    LET s1 == Promise_constructor(Empty, Defer)
        s2 == Promise_done(Promise_then(s1, 1, TRUE, FALSE), 2, TRUE, FALSE)
    IN  Promise_done(Promise_then(s2, 1, TRUE, FALSE), 3, TRUE, FALSE)

InitWave == StartIn(Wave)

NextWave ==
    \/ \E x \in PlainValues : ResolveCall(1, x)
    \/ Flush
    \/ ScheduledFlush
    \/ FlushStep
    \/ \E v \in PlainValues : CallbackReturn(v)

SpecWave == InitWave /\ [][NextWave]_vars

\* ------------------------------------------------------------------ properties
Quiescent == ~flushing /\ mainRing = <<>> /\ idleRing = <<>>

\* C1: once a promise is Fulfilled or Rejected, no step of any operation
\* changes its state or its result.
C1_SettledIsFinal ==
    [][\A p \in PromiseSlots :
          state[p] # "Pending" => state'[p] = state[p] /\ result'[p] = result[p]]_vars

\* A rejected deferred on which user code made a further call that attached
\* no handler: a second resolve/reject, or a then() without onRejected.
C1_Witness ==
    /\ nextId = 1 /\ nextH = 0 /\ nOps = 3
    /\ state[1] = "Rejected" /\ first[1].kind = "reject"

\* C2: of resolve(v), reject(r) and a throw of the resolver, the first one
\* decides the promise; the later ones change nothing and raise no error.
C2_FirstEventDecides ==
    /\ ~failed
    /\ \A p \in PromiseSlots :
          LET ev == first[p]
          IN  /\ ev.kind = "none" => state[p] = "Pending"
              /\ ev.kind = "resolve" /\ ev.v \in PlainValues
                    => state[p] = "Fulfilled" /\ result[p] = ev.v
              /\ ev.kind \in {"reject", "throw"}
                    => state[p] = "Rejected" /\ result[p] = ev.v

\* A deferred resolved with the falsy value, whose closures were called
\* twice more.
C2_Witness ==
    /\ nextId = 1 /\ nOps = 4
    /\ first[1] = Event("resolve", Val(0)) /\ state[1] = "Fulfilled"

\* The callback a Handler has for the state its promise settled in.
CallbackFor(h) ==
    IF state[h.promise] = "Fulfilled" THEN h.onFulfilled ELSE h.onRejected

\* C3: for a Handler of then() that was processed, with q the promise then()
\* returned: a missing callback gives q the state and result of p; a callback
\* that threw e rejects q with e; a callback that returned a plain value
\* fulfils q with it; a returned promise x is adopted (q is Pending while x
\* is, and has x's state and result once the queue is drained); a returned
\* thenable settles q by the first call it makes.
C3_ThenSettlesResult ==
    \A i \in DOMAIN consumed :
        LET h == consumed[i]
            q == h.slave
            o == outcome[h.id]
        IN  ~h.done =>
            /\ ~CallbackFor(h)
                  => state[q] = state[h.promise] /\ result[q] = result[h.promise]
            /\ CallbackFor(h) /\ o.kind = "none" => state[q] = "Pending"
            /\ CallbackFor(h) /\ o.kind = "throw"
                  => state[q] = "Rejected" /\ result[q] = o.v
            /\ CallbackFor(h) /\ o.kind = "return" /\ o.v \in PlainValues
                  => state[q] = "Fulfilled" /\ result[q] = o.v
            /\ CallbackFor(h) /\ o.kind = "return" /\ o.v.t = "promise" /\ o.v.n # q
                  => /\ state[q] # "Pending"
                          => state[q] = state[o.v.n] /\ result[q] = result[o.v.n]
                     /\ Quiescent => state[q] = state[o.v.n]
            /\ CallbackFor(h) /\ o.kind = "return" /\ o.v.t = "thenable"
                  => IF ThenScripts[o.v.n].calls[1] = "res"
                     THEN state[q] = "Fulfilled" /\ result[q] = ResVal
                     ELSE state[q] = "Rejected" /\ result[q] = RejVal

\* Two then() Handlers of user code were processed: the callback of one
\* returned a promise that has settled since, the other had no callback for
\* the state of its promise.
C3_Witness ==
    \E i, j \in DOMAIN consumed :
        /\ ~consumed[i].done /\ CallbackFor(consumed[i])
        /\ outcome[consumed[i].id].kind = "return"
        /\ outcome[consumed[i].id].v.t = "promise"
        /\ state[consumed[i].slave] # "Pending"
        /\ ~consumed[j].done /\ ~CallbackFor(consumed[j])
        /\ consumed[j].onFulfilled # consumed[j].onRejected

\* C4: a callback is invoked only by a step of the flush loop, for the call at
\* the head of the queue: never within the then() or done() that attached it.
C4_CallbacksOnlyInFlush ==
    [][Len(invoked') > Len(invoked)
          => /\ flushing /\ running.id = 0 /\ mainRing # <<>>
             /\ nOps' = nOps
             /\ Head(mainRing).cb = "unwrap"
             /\ invoked' = Append(invoked, invoked'[Len(invoked')])
             /\ invoked'[Len(invoked')].id = Head(mainRing).h.id]_vars

\* The onRejected callback of a Handler runs while the rejection check of
\* its promise is still queued: nothing handled the rejection when the promise
\* was rejected, the Handler was attached after that.
C4_Witness ==
    /\ running.id # 0 /\ state[running.promise] = "Rejected"
    /\ \E i \in DOMAIN idleRing :
          idleRing[i].cb = "checker" /\ idleRing[i].p = running.promise

\* C5: the Handlers of one promise are processed in the order in which they
\* were attached.
C5_AttachmentOrder ==
    \A i, j \in DOMAIN consumed :
        i < j /\ consumed[i].promise = consumed[j].promise
            => consumed[i].id < consumed[j].id

\* Two done() Handlers of one promise were processed, each reporting an
\* unhandled rejection: the first aborted the flush, a later flush resumed.
C5_Witness ==
    /\ Len(consumed) >= 2 /\ consumed[1].promise = consumed[2].promise
    /\ consumed[1].done /\ consumed[2].done /\ Len(unhandled) >= 2

\* Where a Handler is: attached to its promise, queued, or processed.
Attached(id) ==
    { pi \in UNION { { <<p, i>> : i \in DOMAIN handlers[p] } : p \in PromiseSlots } :
        handlers[pi[1]][pi[2]].id = id }
Queued(id) ==
    { i \in DOMAIN mainRing : mainRing[i].cb = "unwrap" /\ mainRing[i].h.id = id }
Processed(id) ==
    { i \in DOMAIN consumed : consumed[i].id = id }

\* C7: every Handler is in exactly one place (attached to a pending promise,
\* queued, or processed once); a processed Handler had at most one callback
\* invoked, the one for the state of its promise, with the promise's result.
C7_HandlerOnce ==
    /\ \A id \in 1..nextH :
          /\ Cardinality(Attached(id)) + Cardinality(Queued(id))
                + Cardinality(Processed(id)) = 1
          /\ \A pi \in Attached(id) : state[pi[1]] = "Pending"
          /\ Cardinality({ i \in DOMAIN invoked : invoked[i].id = id }) <= 1
    /\ \A i \in DOMAIN invoked :
          \E j \in DOMAIN consumed :
              LET h == consumed[j]
              IN  /\ h.id = invoked[i].id
                  /\ invoked[i].arg = result[h.promise]
                  /\ invoked[i].cb = "F" => state[h.promise] = "Fulfilled" /\ h.onFulfilled
                  /\ invoked[i].cb = "R" => state[h.promise] = "Rejected" /\ h.onRejected
    /\ Quiescent => \A id \in 1..nextH : Queued(id) = {}

\* Two Handlers that have both callbacks were processed, one on a fulfilled
\* and one on a rejected promise, and the queue is drained.
C7_Witness ==
    /\ Quiescent
    /\ \E i, j \in DOMAIN invoked : invoked[i].cb = "F" /\ invoked[j].cb = "R"
    /\ \A i \in DOMAIN consumed :
          CallbackFor(consumed[i]) => consumed[i].onFulfilled /\ consumed[i].onRejected

\* C6: in the program p.then(h1).done(h3); p.then(h2).done(h4), whose
\* callbacks return plain values, the callbacks run in the order h1, h2, h3,
\* h4 (Handlers 1, 3, 2, 4), and all four have run when the queue is drained
\* after p was resolved.
C6_WaveOrder ==
    LET order == << 1, 3, 2, 4 >>
    IN  /\ Len(invoked) <= Len(order)
        /\ \A i \in DOMAIN invoked : invoked[i].id = order[i]
        /\ Quiescent /\ state[1] = "Fulfilled" => Len(invoked) = Len(order)

\* p was resolved, the queue is drained and four callbacks have run.
C6_Witness ==
    Quiescent /\ state[1] = "Fulfilled" /\ Len(invoked) = 4

\* The first call of p's resolve closure was resolve(x), x another promise.
Adopts(p, x) ==
    first[p] = Event("resolve", PromiseRef(x)) /\ x # p

\* C8: a resolve(x) of p with a settled promise x gives p the state and the
\* result of x within the call, with a pending x it leaves p Pending; from
\* then on p is Pending while x is, never differs from x once settled, and is
\* settled like x whenever x is settled and the queue is drained.
C8_AdoptsPromise ==
    [][\A p, x \in PromiseSlots :
          /\ first[p].kind = "none" /\ Adopts(p, x)'
                => /\ state'[p] = state[x] /\ result'[p] = result[x]
                   /\ state'[x] = state[x]
          /\ Adopts(p, x)'
                => /\ state'[x] = "Pending" => state'[p] = "Pending"
                   /\ state'[p] # "Pending"
                         => state'[p] = state'[x] /\ result'[p] = result'[x]
                   /\ Quiescent' /\ state'[x] # "Pending" => state'[p] = state'[x]]_vars

\* p was resolved with x while x was pending (a Handler on x was processed
\* for it); x was rejected later and p is rejected with the same reason.
C8_Witness ==
    \E p, x \in PromiseSlots :
        /\ Adopts(p, x) /\ first[x].kind = "reject"
        /\ state[p] = "Rejected" /\ result[p] = first[x].v
        /\ \E i \in DOMAIN consumed :
              consumed[i].promise = x /\ consumed[i].slave = p

\* A deferred whose first call was resolve(q), and which is still Pending.
Locked(d) ==
    /\ first[d].kind = "resolve" /\ first[d].v.t = "promise" /\ first[d].v.n # d
    /\ state[d] = "Pending"

\* C9: a deferred locked to q is settled by no call of user code; the step
\* that settles it is a step of the flush loop, taken when q is settled, and
\* gives it the state and the result of q.
C9_LockedToPromise ==
    [][\A d \in PromiseSlots :
          Locked(d) /\ state'[d] # "Pending"
              => /\ nOps' = nOps /\ flushing
                 /\ state[first[d].v.n] # "Pending"
                 /\ state'[d] = state[first[d].v.n]
                 /\ result'[d] = result[first[d].v.n]]_vars

\* Deferred 1 was resolved with the pending promise 2 and one more call was
\* made on its closures; promise 2 is untouched and deferred 1 is Pending.
C9_Witness ==
    /\ nextId = 2 /\ nOps = 4
    /\ first[1] = Event("resolve", PromiseRef(2)) /\ first[2].kind = "none"
    /\ Locked(1)

\* C10: a promise resolved with a thenable is rejected with the exception of
\* a throwing `then` getter; otherwise it is decided by the first thing the
\* thenable's `then` does with the two functions it is given: a resolvePromise
\* call fulfils it, a rejectPromise call rejects it, a throw before any call
\* rejects it, and until then it is Pending; nothing later has an effect or
\* raises an error.
C10_ThenableFirstCall ==
    /\ ~failed
    /\ \A p \in PromiseSlots :
          first[p].kind = "resolve" /\ first[p].v.t = "thenable" =>
              IF ThenScripts[first[p].v.n].getThrows
              THEN state[p] = "Rejected" /\ result[p] = ThrowVal
                   /\ tfirst[p].kind = "none"
              ELSE /\ tfirst[p].kind = "none" => state[p] = "Pending"
                   /\ tfirst[p].kind = "resolve"
                         => state[p] = "Fulfilled" /\ result[p] = ResVal
                   /\ tfirst[p].kind = "reject"
                         => state[p] = "Rejected" /\ result[p] = RejVal
                   /\ tfirst[p].kind = "throw"
                         => state[p] = "Rejected" /\ result[p] = ThrowVal

\* One promise was resolved with a thenable whose `then` calls resolvePromise
\* and then throws, another with a thenable whose `then` throws at once.
C10_Witness ==
    \E p, q \in PromiseSlots :
        /\ first[p] = Event("resolve", Thenable(4)) /\ state[p] = "Fulfilled"
        /\ first[q] = Event("resolve", Thenable(3)) /\ state[q] = "Rejected"

\* C11: a promise whose resolve function was first called with the promise
\* itself, and a promise returned by then() whose callback returned that very
\* promise, are Rejected with the TypeError.
C11_SelfResolutionRejects ==
    /\ \A p \in PromiseSlots :
          first[p] = Event("resolve", PromiseRef(p))
              => state[p] = "Rejected" /\ result[p] = TypeErrorSelf
    /\ \A i \in DOMAIN consumed :
          LET h == consumed[i]
          IN  ~h.done /\ outcome[h.id] = Event("return", PromiseRef(h.slave))
                  => state[h.slave] = "Rejected" /\ result[h.slave] = TypeErrorSelf

\* A deferred was resolved with itself, and the onRejected callback of a
\* then() on it returned the promise that this then() had returned.
C11_Witness ==
    \E i \in DOMAIN consumed :
        LET h == consumed[i]
        IN  /\ first[h.promise] = Event("resolve", PromiseRef(h.promise))
            /\ ~h.done /\ outcome[h.id] = Event("return", PromiseRef(h.slave))
            /\ state[h.slave] = "Rejected"

\* ------------------------------------------------------------------ done()
\* done() with an onFulfilled callback, with and without onRejected, on
\* deferreds; the callbacks return values, promises and thenables, or throw;
\* the unhandled-rejection handler is the default or one that returns.
DoneCallbacks == { <<TRUE, TRUE>>, <<TRUE, FALSE>> }

NextDone ==
    \/ Construct(Defer)
    \/ \E p \in Created, x \in ResolveInputs : ResolveCall(p, x)
    \/ \E p \in Created, r \in Reasons : RejectCall(p, r)
    \/ \E p \in Created, c \in DoneCallbacks : Done(p, c[1], c[2])
    \/ \E b \in BOOLEAN : OnUnhandledRejection(b)
    \/ Flush
    \/ ScheduledFlush
    \/ FlushStep
    \/ \E v \in ResolveInputs \cup ReturnThenables : CallbackReturn(v)
    \/ \E e \in Thrown : CallbackThrow(e)

SpecDone == Init /\ [][NextDone]_vars

\* C12: the step that processes a done() Handler without onRejected on a
\* promise rejected with E is a step of a flush; it gives E to the
\* unhandled-rejection handler, and with the default handler the exception
\* UnhandledRejection(E) leaves the flush in that step.
C12_DoneReportsRejection ==
    [][\A n \in 1..Len(consumed') :
          LET h == consumed'[n]
          IN  n > Len(consumed) /\ h.done /\ ~h.onRejected
              /\ state[h.promise] = "Rejected"
              => /\ flushing
                 /\ unhandled' = Append(unhandled, result[h.promise])
                 /\ IF throwing
                    THEN /\ escaped' = Append(escaped,
                                              UnhandledRejection(result[h.promise]))
                         /\ ~flushing'
                    ELSE escaped' = escaped]_vars

\* A done() of user code that has only onFulfilled was processed on a
\* rejected deferred, and an UnhandledRejection with the reason of the
\* deferred left the flush.
C12_Witness ==
    \E i \in DOMAIN consumed :
        LET h == consumed[i]
        IN  /\ h.done /\ h.onFulfilled /\ ~h.onRejected
            /\ state[h.promise] = "Rejected" /\ first[h.promise].kind = "reject"
            /\ escaped = << UnhandledRejection(first[h.promise].v) >>

\* What the unhandled-rejection handler is owed for a processed done() Handler
\* of user code: the reason of its promise when it has no callback for a
\* rejection, the error its callback threw, the reason of the rejected
\* promise its callback returned, the reason a returned thenable rejects with.
Owed(h) ==
    LET o == outcome[h.id]
    IN  IF ~CallbackFor(h)
        THEN IF state[h.promise] = "Rejected" THEN { result[h.promise] } ELSE {}
        ELSE IF o.kind = "throw" THEN { o.v }
        ELSE IF o.kind = "return" /\ o.v.t = "promise"
        THEN IF state[o.v.n] = "Rejected" THEN { result[o.v.n] } ELSE {}
        ELSE IF o.kind = "return" /\ o.v.t = "thenable"
        THEN IF ThenScripts[o.v.n].calls[1] = "rej" THEN { RejVal } ELSE {}
        ELSE {}

UserDone(h) == h.done /\ h.onFulfilled
AllReasons == Reasons \cup Thrown \cup { RejVal, ThrowVal, TypeErrorSelf }

\* C13: the unhandled-rejection handler never gets a reason that is not
\* owed for a processed done() Handler, and when the queue is drained it has
\* got every reason owed exactly once: for a Handler whose callback ran, the
\* error thrown or the reason of the returned rejected promise or thenable, and
\* nothing for a plain value, a fulfilled promise or a fulfilling thenable.
C13_DoneCallbackOutcome ==
    \A r \in AllReasons :
        LET got  == Cardinality({ i \in DOMAIN unhandled : unhandled[i] = r })
            owed == Cardinality({ i \in DOMAIN consumed :
                        UserDone(consumed[i]) /\ r \in Owed(consumed[i]) })
        IN  got <= owed /\ (Quiescent => got = owed)

\* The queue is drained; the callback of one done() Handler returned a
\* promise that is rejected, the callback of another returned a plain value,
\* and the handler got one reason.
C13_Witness ==
    /\ Quiescent /\ Len(unhandled) = 1
    /\ \E i, j \in DOMAIN consumed :
          /\ UserDone(consumed[i]) /\ UserDone(consumed[j])
          /\ outcome[consumed[i].id].kind = "return"
          /\ outcome[consumed[i].id].v.t = "promise"
          /\ state[outcome[consumed[i].id].v.n] = "Rejected"
          /\ outcome[consumed[j].id] = Event("return", Val(1))

\* C14: a step in which the default unhandled-rejection handler throws ends
\* the flush with that exception: no callback is invoked in it, the calls
\* queued behind the one that threw stay queued in their order, and a flusher
\* is outstanding for them; and whenever the queue is drained, every Handler
\* ever queued has been processed.
C14_ThrowAbortsFlush ==
    [][/\ Len(unhandled') > Len(unhandled) /\ throwing
            => /\ flushing /\ ~flushing'
               /\ escaped' = Append(escaped,
                                    UnhandledRejection(unhandled'[Len(unhandled')]))
               /\ invoked' = invoked
               /\ idleRing' = idleRing
               /\ mainRing' = IF running.id # 0 THEN mainRing ELSE Tail(mainRing)
               /\ mainRing' # <<>> \/ idleRing' # <<>> => scheduled' /\ outstanding' = 1
       /\ Quiescent'
            => \A id \in 1..nextH' : (Attached(id) # {})' \/ (Processed(id) # {})']_vars

\* The callback of the first done() Handler threw and the exception left the
\* flush; a later flush ran the callback of the Handler queued behind it and
\* drained the queue.
C14_Witness ==
    /\ Quiescent /\ throwing /\ Len(escaped) = 1 /\ Len(consumed) >= 2
    /\ outcome[consumed[1].id].kind = "throw"
    /\ outcome[consumed[2].id].kind = "return"

\* ------------------------------------------------------------------ Async alone
\* User code gives callbacks of its own to async.enqueue / async.enqueueIdle,
\* at top level and from inside those callbacks; a callback returns or throws.
UserCall(id) == Call("user", [NoHandler EXCEPT !.id = id], 0)

Enqueue ==
    /\ UserOp(Counted)
    /\ Commit(Async_enqueue([Counted EXCEPT !.nextH = @ + 1], UserCall(nextH + 1)))

EnqueueIdle ==
    /\ UserOp(Counted)
    /\ Commit(Async_enqueueIdle([Counted EXCEPT !.nextH = @ + 1], UserCall(nextH + 1)))

CbReturn ==
    /\ running.id # 0 /\ running.promise = 0
    /\ Commit(Async_flushNext([Cur EXCEPT !.running = NoHandler,
                  !.outcome[running.id] = Event("return", Undefined)]))

CbThrow(e) ==
    /\ running.id # 0 /\ running.promise = 0
    /\ Commit(Async_flushNext([Cur EXCEPT !.running = NoHandler,
                  !.outcome[running.id] = Event("throw", e),
                  !.exc = TRUE, !.err = e]))

\* A callback calls flush().
RecursiveFlush ==
    /\ running.id # 0 /\ UserOp(Counted)
    /\ Commit(Async_flushEntry(Counted))

NextAsync ==
    \/ Enqueue
    \/ EnqueueIdle
    \/ Flush
    \/ ScheduledFlush
    \/ FlushStep
    \/ CbReturn
    \/ \E e \in Thrown : CbThrow(e)

SpecAsync == Init /\ [][NextAsync]_vars

\* Where a callback of user code is: in one of the two queues, or invoked.
InQueues(id) ==
    Cardinality({ i \in DOMAIN mainRing : mainRing[i] = UserCall(id) })
        + Cardinality({ i \in DOMAIN idleRing : idleRing[i] = UserCall(id) })
Invocations(id) ==
    Cardinality({ i \in DOMAIN invoked : invoked[i].id = id })

\* C15: every callback given to enqueue / enqueueIdle is either still queued
\* once and not invoked, or queued no more and invoked once, whichever
\* callbacks threw; with the queues drained each has been invoked once.
C15_EachCallbackOnce ==
    \A id \in 1..nextH :
        /\ InQueues(id) + Invocations(id) = 1
        /\ Quiescent => Invocations(id) = 1

\* Three callbacks were invoked, the first of them threw out of the flush,
\* and the queues are drained.
C15_Witness ==
    /\ Quiescent /\ Len(invoked) = 3 /\ escaped # <<>>
    /\ outcome[invoked[1].id].kind = "throw"

\* C16: a step in which flush() returns without an exception leaves the
\* main ring and the idle ring empty, and every callback enqueued so far
\* has been invoked.
C16_NormalReturnDrained ==
    [][flushing /\ ~flushing' /\ escaped' = escaped
          => /\ mainRing' = <<>> /\ idleRing' = <<>>
             /\ \A id \in 1..nextH' : Invocations(id)' = 1]_vars

\* Three callbacks were enqueued and invoked, not in the order in which they
\* were enqueued; none threw, and the flush has returned.
C16_Witness ==
    /\ Quiescent /\ escaped = <<>> /\ Len(invoked) = 3 /\ nOps = 3
    /\ \E i \in DOMAIN invoked : invoked[i].id > invoked[Len(invoked)].id

\* C19: the host scheduler is handed a flusher only by a step that starts with
\* none outstanding and ends outside a flush; at most one flusher is
\* outstanding, exactly when `scheduled` is set, and no assertion fails.
C19_OneOutstandingFlusher ==
    [][/\ outstanding' > outstanding => outstanding = 0 /\ ~scheduled /\ ~flushing'
       /\ outstanding' \in {0, 1} /\ (scheduled' <=> outstanding' = 1)
       /\ ~failed']_vars

\* A flush ran one callback, which threw, and left callbacks queued; one more
\* was enqueued after that, and exactly one flusher is outstanding.
C19_Witness ==
    /\ outstanding = 1 /\ escaped # <<>> /\ ~flushing
    /\ mainRing # <<>> /\ mainRing[Len(mainRing)].h.id = nextH
    /\ Len(invoked) = 1 /\ nextH >= 3

\* C20: outside a flush, a queued callback (normal or idle) has a flusher
\* that was handed to the host scheduler and has not run yet.
C20_QueuedMeansScheduled ==
    ~flushing /\ (mainRing # <<>> \/ idleRing # <<>>)
        => scheduled /\ outstanding >= 1

\* A flush was left by an exception with callbacks still queued in both
\* rings, and a flusher is outstanding.
C20_Witness ==
    /\ ~flushing /\ escaped # <<>> /\ mainRing # <<>> /\ idleRing # <<>>
    /\ outstanding = 1

\* Async alone, with callbacks that call flush().
NextReflush ==
    \/ Enqueue
    \/ EnqueueIdle
    \/ RecursiveFlush
    \/ Flush
    \/ ScheduledFlush
    \/ FlushStep
    \/ CbReturn
    \/ \E e \in Thrown : CbThrow(e)

SpecReflush == Init /\ [][NextReflush]_vars

\* C18: a flush() called by a running callback fails its assertion and
\* changes nothing: no callback is invoked, the queues, the flushing flag and
\* the scheduling stay as they are.  A flush in progress always has a callback
\* running or queued (it has exited otherwise, clearing the flag), and with
\* the queues drained every callback has been invoked once.
C18_RecursiveFlushFails ==
    [][/\ RecursiveFlush
            => /\ failed'
               /\ UNCHANGED << flushing, mainRing, idleRing, invoked, running,
                               scheduled, outstanding, escaped, outcome >>
       /\ flushing' => running'.id # 0 \/ mainRing' # <<>>
       /\ Quiescent' => \A id \in 1..nextH' : Invocations(id)' = 1]_vars

\* Two callbacks were enqueued and one of them called flush(); the first one
\* invoked threw out of the flush, and a later flush ran the other one.
C18_Witness ==
    /\ failed /\ Quiescent /\ nOps = 3 /\ nextH = 2 /\ Len(invoked) = 2
    /\ outcome[invoked[1].id].kind = "throw" /\ Len(escaped) = 1

\* Async alone, flushed by the host only: no call of flush() by user code.
\* The host runs every flusher it was handed, a flush in progress goes on to
\* its next queued call, and a callback that runs returns or throws; user
\* code enqueues at most MaxOps callbacks.
NextAuto ==
    \/ Enqueue
    \/ EnqueueIdle
    \/ ScheduledFlush
    \/ FlushStep
    \/ CbReturn
    \/ \E e \in Thrown : CbThrow(e)

SpecAuto ==
    /\ Init /\ [][NextAuto]_vars
    /\ WF_vars(ScheduledFlush)
    /\ WF_vars(FlushStep)
    /\ WF_vars(CbReturn \/ \E e \in Thrown : CbThrow(e))

\* C17: when the host runs the flushers it is handed, every callback that
\* was enqueued is eventually invoked, whichever callbacks throw.
C17_EventuallyInvoked ==
    \A id \in 1..MaxOps : (nextH >= id) ~> (Invocations(id) = 1)

\* Three callbacks were invoked by flushes of the host alone, the first of
\* them threw out of its flush, and the queues are drained.
C17_Witness ==
    /\ Quiescent /\ Len(invoked) = 3 /\ nextH = 3 /\ Len(escaped) >= 1
    /\ outcome[invoked[1].id].kind = "throw" /\ outstanding = 0

\* ------------------------------------------------------------------ waves
\* The same two calls, with a note in `enq` of whether the callback was given
\* to enqueueIdle, of how many callbacks had been invoked by then, and of the
\* callback that made the call (0: user code at top level).
Noted(idle) ==
    [Counted EXCEPT !.nextH = @ + 1,
                    !.enq[nextH + 1] = [idle |-> idle, at |-> Len(invoked),
                                        by |-> running.id]]

EnqueueNoted ==
    /\ UserOp(Counted)
    /\ Commit(Async_enqueue(Noted(FALSE), UserCall(nextH + 1)))

EnqueueIdleNoted ==
    /\ UserOp(Counted)
    /\ Commit(Async_enqueueIdle(Noted(TRUE), UserCall(nextH + 1)))

\* Async alone, flushed by flush() at top level.
NextWaves ==
    \/ EnqueueNoted
    \/ EnqueueIdleNoted
    \/ Flush
    \/ FlushStep
    \/ CbReturn
    \/ \E e \in Thrown : CbThrow(e)

SpecWaves == Init /\ [][NextWaves]_vars

Normal(id) == id \in 1..nextH /\ ~enq[id].idle
Idle(id) == id \in 1..nextH /\ enq[id].idle
\* The position of a callback in the order of invocation (0: not invoked).
Pos(id) ==
    IF \E k \in DOMAIN invoked : invoked[k].id = id
    THEN CHOOSE k \in DOMAIN invoked : invoked[k].id = id
    ELSE 0
\* A batch of idle callbacks is the idle callbacks that are queued when the
\* first of them is invoked.  BatchStart(k) is the position of the callback
\* that began the latest batch among the first k invocations (0: none): an
\* idle callback begins a batch when it was enqueued after the batch before
\* it began.
RECURSIVE BatchStart(_)
BatchStart(k) ==
    IF k = 0 THEN 0
    ELSE LET b == BatchStart(k - 1)
         IN  IF Idle(invoked[k].id) /\ (b = 0 \/ enq[invoked[k].id].at >= b)
             THEN k ELSE b

\* C21: callbacks run in waves.  Normal callbacks run in the order enqueued,
\* and so do idle callbacks.  When a batch of idle callbacks begins, every
\* normal callback enqueued until then has been invoked.  A normal callback
\* enqueued after a batch began runs after every idle callback of that batch,
\* and before the next batch begins (which is the first clause again).
C21_Waves ==
    /\ \A k, m \in DOMAIN invoked :
          k < m /\ enq[invoked[k].id].idle = enq[invoked[m].id].idle
              => invoked[k].id < invoked[m].id
    /\ \A k \in DOMAIN invoked :
          BatchStart(k) = k
              => \A n \in 1..nextH :
                    Normal(n) /\ enq[n].at < k => Pos(n) \in 1..(k - 1)
    /\ \A m \in DOMAIN invoked :
          LET n == invoked[m].id
              b == BatchStart(m)
          IN  Normal(n) /\ b > 0 /\ enq[n].at >= b
                  => \A i \in 1..nextH :
                        Idle(i) /\ enq[i].at < b => Pos(i) \in 1..(m - 1)

\* Two idle callbacks were queued; the first of them enqueued an idle and
\* then a normal callback; the four ran in the order: the batch of two, the
\* normal callback, the idle callback enqueued during the batch.
C21_Witness ==
    /\ Quiescent /\ Len(invoked) = 4 /\ escaped = <<>>
    /\ Idle(invoked[1].id) /\ Idle(invoked[2].id) /\ enq[invoked[2].id].at = 0
    /\ Normal(invoked[3].id) /\ enq[invoked[3].id].by = invoked[1].id
    /\ Idle(invoked[4].id) /\ enq[invoked[4].id].by = invoked[1].id
    /\ invoked[4].id < invoked[3].id

\* The callbacks still queued when callback n was enqueued: enqueued before
\* it (callbacks are numbered as they are enqueued) and invoked after the
\* callback that enqueued it, or not yet.
QueuedWhenEnqueued(i, n) ==
    i < n /\ (Pos(i) = 0 \/ Pos(i) > enq[n].at)

\* C22 as stated: a normal callback enqueued by an idle callback runs before
\* every idle callback that was still queued at that moment.  The code runs
\* the rest of the batch first.
C22_NormalBeforeQueuedIdle ==
    \A n, i \in 1..nextH :
        /\ Normal(n) /\ Idle(enq[n].by)
        /\ Idle(i) /\ QueuedWhenEnqueued(i, n)
        /\ Pos(i) # 0
        => Pos(n) \in 1..(Pos(i) - 1)

\* C22, amended: a normal callback enqueued by an idle callback runs after
\* the idle callbacks of the batch in progress (those that were queued when
\* the batch began), and before every idle callback enqueued since the batch
\* began, whether before or after the normal callback itself.
C22_NormalAfterBatchBeforeNewIdle ==
    \A n, i \in 1..nextH :
        Normal(n) /\ Idle(enq[n].by) /\ Idle(i)
        => LET b == BatchStart(enq[n].at)
           IN  /\ b > 0
               /\ enq[i].at < b /\ Pos(n) # 0 => Pos(i) \in 1..(Pos(n) - 1)
               /\ enq[i].at >= b /\ Pos(i) # 0 => Pos(n) \in 1..(Pos(i) - 1)

\* The first of a batch of two idle callbacks enqueued an idle and then a
\* normal callback: the normal one ran after the second of the batch and
\* before the idle callback enqueued during the batch.
C22_Witness ==
    /\ Len(invoked) = 4 /\ nextH = 4
    /\ Idle(1) /\ Idle(2) /\ Idle(3) /\ Normal(4)
    /\ enq[2].at = 0 /\ enq[3].by = 1 /\ enq[4].by = 1
    /\ Pos(2) = 2 /\ Pos(4) = 3 /\ Pos(3) = 4

\* ------------------------------------------------------------------ rejection tracking
\* p.suppressUnhandledRejections()
Suppress(p) ==
    /\ UserOp(Counted)
    /\ Commit(Promise_suppressUnhandledRejections(
                  [Counted EXCEPT !.suppressed = @ \cup {p}], p))

\* Deferreds that are rejected, resolved with values and with each other,
\* given then(cb), catch(cb) and done(), or suppressed, before and after the
\* flushes that run their rejection probes; callbacks return or throw.
NextTrack ==
    \/ Construct(Defer)
    \/ \E p \in Created, x \in {ResVal} \cup { PromiseRef(q) : q \in Created } :
          ResolveCall(p, x)
    \/ \E p \in Created : RejectCall(p, RejVal)
    \/ \E p \in Created, c \in OneCallback : Then(p, c[1], c[2])
    \/ \E p \in Created : Done(p, FALSE, FALSE)
    \/ \E p \in Created : Suppress(p)
    \/ Flush
    \/ FlushStep
    \/ CallbackReturn(ResVal)
    \/ \E e \in Thrown : CallbackThrow(e)

SpecTrack == Init /\ [][NextTrack]_vars

PossiblyUnhandled(p) == [kind |-> "possiblyUnhandled", p |-> p]
RejectionHandledNote(p) == [kind |-> "rejectionHandled", p |-> p]
\* The notifications delivered for p, in order.
Notes(p) == SelectSeq(notified, LAMBDA n : n.p = p)
Reported(p) == \E i \in DOMAIN notified : notified[i] = PossiblyUnhandled(p)

\* Nothing was ever applied to p: no Handler of then(), catch(), done() or of
\* an adopting promise is attached to it, queued or processed, no promise
\* was resolved with it, and it was not suppressed.
Untouched(p) ==
    /\ handlers[p] = <<>>
    /\ \A i \in DOMAIN mainRing :
          mainRing[i].cb = "unwrap" => mainRing[i].h.promise # p
    /\ \A i \in DOMAIN consumed : consumed[i].promise # p
    /\ \A q \in PromiseSlots : ~Adopts(q, p)
    /\ p \notin suppressed

\* The rejection probe of p is the next queued call.
ProbeNext(p) ==
    flushing /\ running.id = 0 /\ mainRing # <<>>
        /\ Head(mainRing) = Call("checker", NoHandler, p)

\* How many notifications of p are queued / were delivered.
QueuedReports(p) ==
    Cardinality({ i \in DOMAIN mainRing :
                    mainRing[i] = Call("possiblyUnhandled", NoHandler, p) })
Reports(p) ==
    Cardinality({ i \in DOMAIN notified : notified[i] = PossiblyUnhandled(p) })

\* C23: when the probe of a rejected promise runs with nothing applied to the
\* promise, the promise is marked as notified and its possibly-unhandled
\* notification is queued in the flush in progress; the notification of a
\* promise so marked is queued or delivered, once, and it has been delivered
\* whenever no flush is in progress.
C23_ProbeReports ==
    [][\A p \in PromiseSlots :
          /\ ProbeNext(p) /\ Untouched(p)
                => /\ state[p] = "Rejected" /\ ~Reported(p)
                   /\ flushing'
                   /\ UnhandledRejectionNotified \in flags'[p]
                   /\ QueuedReports(p)' = 1
          /\ UnhandledRejectionNotified \in flags'[p]
                => /\ QueuedReports(p)' + Reports(p)' = 1
                   /\ ~flushing' => Reports(p)' = 1
      ]_vars

\* Promise 1 was rejected with nothing applied to it and one flush has
\* returned: its notification was delivered in that flush.
C23_Witness ==
    /\ Quiescent /\ state[1] = "Rejected" /\ Untouched(1)
    /\ notified = << PossiblyUnhandled(1) >> /\ nOps = 2

\* The step applies a rejection handler, done() or
\* suppressUnhandledRejections() to p.
Handles(p) ==
    \/ \E f \in BOOLEAN : Then(p, f, TRUE)
    \/ \E f, r \in BOOLEAN : Done(p, f, r)
    \/ Suppress(p)
\* p is handled and no notification of it is queued or delivered.
Shielded(p) ==
    /\ RejectionHandled \in flags[p]
    /\ QueuedReports(p) = 0 /\ ~Reported(p)

\* C24: a step that applies catch() / then(_, onRejected), done() or
\* suppressUnhandledRejections() to a promise that is pending, or rejected
\* and not reported, leaves it handled with no notification queued or
\* delivered, and it stays so in every later step: its possibly-unhandled
\* notification is never delivered.
C24_HandledNeverReported ==
    [][\A p \in PromiseSlots :
          /\ Handles(p) /\ state[p] # "Fulfilled" /\ ~Reported(p) => Shielded(p)'
          /\ Shielded(p) => Shielded(p)'
      ]_vars

\* Promise 1 was suppressed, before or after it was rejected, and nothing
\* else was applied to it; the queues are drained and nothing was reported.
C24_Witness ==
    /\ Quiescent /\ state[1] = "Rejected" /\ 1 \in suppressed
    /\ handlers[1] = <<>> /\ consumed = <<>> /\ notified = <<>> /\ nOps = 3
    /\ \A q \in PromiseSlots : ~Adopts(q, 1)

\* The step handles p: catch() / then(_, onRejected), done(), suppression,
\* or a promise that is resolved with p.
HandlesLate(p) ==
    \/ \E f \in BOOLEAN : Then(p, f, TRUE)
    \/ \E f, r \in BOOLEAN : Done(p, f, r)
    \/ Suppress(p)
    \/ \E q \in Created \ {p} : ResolveCall(q, PromiseRef(p)) /\ ~called[q]
QueuedHandledNotes(p) ==
    Cardinality({ i \in DOMAIN mainRing :
                    mainRing[i] = Call("rejectionHandled", NoHandler, p) })

C26_AdoptionMovesResponsibility ==
    [][\A p1, p2 \in PromiseSlots :
          p1 # p2 =>
          /\ ResolveCall(p2, PromiseRef(p1)) /\ ~called[p2] /\ ~Reported(p1)
                => Adopts(p2, p1)' /\ Shielded(p1)'
          /\ Adopts(p2, p1) /\ Shielded(p1) => Shielded(p1)'
          /\ Adopts(p2, p1)' /\ Shielded(p1)' /\ Quiescent'
               /\ state'[p1] = "Rejected" /\ Untouched(p2)'
                => Notes(p1)' = <<>> /\ Notes(p2)' = << PossiblyUnhandled(p2) >>
      ]_vars

\* Promise 2 was resolved with promise 1 while that one was pending; promise
\* 1 was rejected afterwards, and the flush reported promise 2 alone.
C26_Witness ==
    /\ Quiescent /\ Adopts(2, 1) /\ state[1] = "Rejected" /\ state[2] = "Rejected"
    /\ Len(consumed) = 1 /\ consumed[1].promise = 1 /\ consumed[1].slave = 2
    /\ Untouched(2) /\ notified = << PossiblyUnhandled(2) >>

\* The Handlers of then(cb), cb a fulfillment callback and no rejection
\* callback, that are queued or processed.
ThenOnly ==
    { h \in { consumed[i] : i \in DOMAIN consumed }
              \cup { mainRing[i].h : i \in { j \in DOMAIN mainRing :
                                                mainRing[j].cb = "unwrap" } } :
        h.onFulfilled /\ ~h.onRejected /\ ~h.done }

\* C27: let p2 = p1.then(cb) and p1 be rejected (then() of a rejected
\* promise without a rejection callback returns the promise itself, so the
\* Handler was attached while p1 was pending).  p1 is never reported.  Once
\* the Handler is processed cb was not called and p2 is rejected with the
\* reason of p1; with the queues drained, p2 has been reported, and not
\* declared handled, exactly when nothing was applied to p2.
C27_TrackedPerPromise ==
    \A h \in ThenOnly :
        state[h.promise] = "Rejected"
        => /\ Notes(h.promise) = <<>>
           /\ (\E i \in DOMAIN consumed : consumed[i] = h)
                => /\ \A i \in DOMAIN invoked : invoked[i].id # h.id
                   /\ state[h.slave] = "Rejected"
                   /\ result[h.slave] = result[h.promise]
                   /\ Quiescent =>
                        (Untouched(h.slave)
                            <=> Notes(h.slave) = << PossiblyUnhandled(h.slave) >>)

\* p2 = p1.then(cb) was made, p1 was rejected, and the flush reported p2
\* alone, with the reason of p1.
C27_Witness ==
    /\ Quiescent /\ Len(consumed) = 1 /\ consumed[1] \in ThenOnly
    /\ consumed[1].promise = 1 /\ consumed[1].slave = 2
    /\ state[1] = "Rejected" /\ result[2] = result[1]
    /\ notified = << PossiblyUnhandled(2) >> /\ nOps = 3

\* ------------------------------------------------------------------ inspection
Methods == {"isFulfilled", "isRejected", "isPending", "value", "reason"}
Inspection(s, p, m) ==
    IF m = "isFulfilled" THEN Promise_isFulfilled(s, p)
    ELSE IF m = "isRejected" THEN Promise_isRejected(s, p)
    ELSE IF m = "isPending" THEN Promise_isPending(s, p)
    ELSE IF m = "value" THEN Promise_value(s, p)
    ELSE Promise_reason(s, p)

\* User code calls p.m() and keeps what it returned or threw.
Inspect(p, m) ==
    /\ UserOp(Counted)
    /\ LET s == Inspection(Counted, p, m)
       IN  Commit([s EXCEPT !.seen = Append(@,
                      [p |-> p, m |-> m,
                       out |-> IF s.exc THEN Event("throw", s.err)
                               ELSE Event("return", s.ret)])])

\* Deferreds that are settled, inspected at any time, given catch(cb), and
\* flushed.
NextInspect ==
    \/ Construct(Defer)
    \/ \E p \in Created : ResolveCall(p, ResVal)
    \/ \E p \in Created : RejectCall(p, RejVal)
    \/ \E p \in Created, m \in Methods : Inspect(p, m)
    \/ \E p \in Created : Then(p, FALSE, TRUE)
    \/ Flush
    \/ FlushStep
    \/ CallbackReturn(ResVal)

SpecInspect == Init /\ [][NextInspect]_vars

\* What the inspection methods answer in the current state.
Answer(p, m) ==
    IF m = "isFulfilled" THEN Event("return", Bool(state[p] = "Fulfilled"))
    ELSE IF m = "isRejected" THEN Event("return", Bool(state[p] = "Rejected"))
    ELSE IF m = "isPending" THEN Event("return", Bool(state[p] = "Pending"))
    ELSE IF m = "value"
         THEN IF state[p] = "Fulfilled" THEN Event("return", result[p])
              ELSE Event("throw", NotFulfilled)
    ELSE IF state[p] = "Rejected" THEN Event("return", result[p])
         ELSE Event("throw", NotRejected)

Inspected(p) == \E i \in DOMAIN seen : seen[i].p = p

\* C28: a call of isFulfilled(), isRejected(), isPending(), value() or
\* reason() answers from the promise's state and result and changes nothing
\* (the model counts the call and keeps the answer); a rejected promise that
\* was inspected and had nothing else applied to it has, once the queues are
\* drained, its possibly-unhandled notification and no rejection-handled one.
C28_InspectionIsPure ==
    [][/\ \A p \in PromiseSlots, m \in Methods :
            Inspect(p, m)
                => /\ seen' = Append(seen, [p |-> p, m |-> m, out |-> Answer(p, m)])
                   /\ UNCHANGED << nextId, state, result, handlers, flags, ctor,
                                   called, thenCalled, mainRing, idleRing, flushing,
                                   scheduled, outstanding, unwrapping, running,
                                   throwing, nextH, consumed, invoked, outcome,
                                   first, tfirst, unhandled, escaped, enq,
                                   suppressed, notified, failed >>
       /\ \A p \in PromiseSlots :
            Inspected(p)' /\ Untouched(p)' /\ state'[p] = "Rejected" /\ Quiescent'
                => Notes(p)' = << PossiblyUnhandled(p) >>
      ]_vars

\* Promise 1 was rejected, isRejected() answered true and reason() returned
\* the reason before the flush, and the flush reported the promise.
C28_Witness ==
    /\ Quiescent /\ state[1] = "Rejected" /\ Untouched(1)
    /\ seen = << [p |-> 1, m |-> "isRejected", out |-> Event("return", Bool(TRUE))],
                 [p |-> 1, m |-> "reason", out |-> Event("return", RejVal)] >>
    /\ notified = << PossiblyUnhandled(1) >>

\* ------------------------------------------------------------------ Promise.all
MaxInputs == 2        \* length of the arrays given to Promise.all
\* The arrays given to Promise.all: the two deferreds and a value that is
\* not a thenable, in every order and with repetitions.
AllInputs ==
    LET E == {PromiseRef(1), PromiseRef(2), Val(1)}
    IN  UNION { [1..n -> E] : n \in 0..MaxInputs }

\* The one call of Promise.all that a behaviour makes.
All(thenables) ==
    /\ UserOp(Counted)
    /\ \A p \in PromiseSlots : ~all[p].made
    /\ Commit(Promise_all(Counted, thenables))

\* reject(r) of a deferred, with a note of the order of the rejections.
RejectNoted(p, r) ==
    /\ UserOp(Counted) /\ ctor[p] /\ ~all[p].made
    /\ LET s == RejectFn(NoteFirst(Counted, p, Event("reject", r)), p, r)
       IN  Commit(IF state[p] = "Pending" /\ s.state[p] = "Rejected"
                  THEN [s EXCEPT !.rejectedOrder = Append(@, p)] ELSE s)

\* A callback of follow() runs: it is library code, so it runs in the step
\* after the one that entered it without anything in between.
FollowCallback ==
    /\ running.id # 0 /\ follow[running.id].all # 0
    /\ LET f  == follow[running.id]
           s0 == [Cur EXCEPT !.running = NoHandler,
                             !.outcome[running.id] = Event("return", Undefined)]
           s1 == IF state[running.promise] = "Fulfilled"
                 THEN Promise_all_onFulfilled(s0, f.all, f.index, result[running.promise])
                 ELSE Promise_all_onRejected(s0, f.all, result[running.promise])
       IN  Commit(Async_flushNext(Promise_unwrapReturn(s1, running, Undefined)))

\* Two deferreds exist; user code gives them, and plain values, to
\* Promise.all, once, and settles them before and after that.
InitAll == StartIn(Promise_constructor(Promise_constructor(Empty, Defer), Defer))

NextAll ==
    \/ \E ts \in AllInputs : All(ts)
    \/ \E p \in {1, 2}, x \in PlainValues : ResolveCall(p, x)
    \/ \E p \in {1, 2}, r \in Reasons : RejectNoted(p, r)
    \/ Flush
    \/ FlushStep
    \/ FollowCallback

SpecAll == InitAll /\ [][NextAll]_vars

AllPromises == { a \in PromiseSlots : all[a].made }
\* The inputs of a that are rejected, by index.
RejectedInputs(a) ==
    { i \in DOMAIN all[a].slaves : state[all[a].slaves[i]] = "Rejected" }

\* C29: for the promise a of Promise.all(inputs): an input that is a promise
\* is followed itself, any other input is followed as a promise already
\* fulfilled with it; a is Fulfilled only when every input is, and its value
\* is then the array that holds at each index the value of the input at that
\* index; with every input fulfilled and the queues drained a is Fulfilled;
\* for an empty array a is Fulfilled, with an empty array, from the call on.
C29_AllFulfills ==
    \A a \in AllPromises :
        LET A == all[a]
            n == Len(A.thenables)
        IN  /\ Len(A.slaves) = n
            /\ \A i \in 1..n :
                  IF A.thenables[i].t = "promise"
                  THEN A.slaves[i] = A.thenables[i].n
                  ELSE /\ state[A.slaves[i]] = "Fulfilled"
                       /\ result[A.slaves[i]] = A.thenables[i]
            /\ state[a] = "Fulfilled"
                  => /\ \A i \in 1..n : state[A.slaves[i]] = "Fulfilled"
                     /\ result[a] = ArrayRef(a)
                     /\ A.result = [i \in 1..n |-> result[A.slaves[i]]]
            /\ Quiescent /\ (\A i \in 1..n : state[A.slaves[i]] = "Fulfilled")
                  => state[a] = "Fulfilled"
            /\ n = 0 => state[a] = "Fulfilled" /\ A.result = <<>>

\* all([d1, d2]) is fulfilled with the array of d1's and d2's values, which
\* differ; d2 was fulfilled first.
C29_Witness ==
    \E a \in AllPromises :
        /\ all[a].thenables = << PromiseRef(1), PromiseRef(2) >>
        /\ state[a] = "Fulfilled" /\ all[a].result = << Val(1), Val(0) >>
        /\ Len(consumed) = 2 /\ follow[consumed[1].id].index = 2
        /\ Quiescent

\* The place of a rejected deferred in the order of the rejections.
Rank(p) == CHOOSE k \in DOMAIN rejectedOrder : rejectedOrder[k] = p
\* The input of a that was rejected first.
FirstToReject(a) ==
    LET i == CHOOSE i \in RejectedInputs(a) :
                \A j \in RejectedInputs(a) :
                    Rank(all[a].slaves[i]) <= Rank(all[a].slaves[j])
    IN  all[a].slaves[i]
\* The inputs of a that were rejected before all() was called.
RejectedBefore(a) ==
    { i \in RejectedInputs(a) : Rank(all[a].slaves[i]) <= all[a].before }
\* The input whose rejection a observes first: of the inputs rejected before
\* the call the one with the lowest index, otherwise the first to reject.
FirstObserved(a) ==
    IF RejectedBefore(a) # {}
    THEN all[a].slaves[CHOOSE i \in RejectedBefore(a) :
                          \A j \in RejectedBefore(a) : i <= j]
    ELSE FirstToReject(a)

\* C30 as stated: with a rejected input, the promise of Promise.all is not
\* Fulfilled, and once Rejected its reason is the reason of the input that
\* was rejected first.
C30_ReasonOfFirstToReject ==
    \A a \in AllPromises :
        RejectedInputs(a) # {}
        => /\ state[a] # "Fulfilled"
           /\ state[a] = "Rejected" => result[a] = result[FirstToReject(a)]

\* C30, amended: with a rejected input, the promise of Promise.all is not
\* Fulfilled, it is Rejected once the queues are drained, and once Rejected
\* its reason is, in every later state, that of the input whose rejection it
\* observed first: the lowest-indexed of the inputs already rejected when
\* all() was called, and with none of those the first input to reject.
C30_ReasonOfFirstObserved ==
    \A a \in AllPromises :
        RejectedInputs(a) # {}
        => /\ state[a] # "Fulfilled"
           /\ Quiescent => state[a] = "Rejected"
           /\ state[a] = "Rejected" => result[a] = result[FirstObserved(a)]

\* all([d1, d2]) was called with both pending; d1 was rejected, then d2 with
\* another reason; both rejections were processed and the promise has d1's.
C30_Witness ==
    \E a \in AllPromises :
        /\ all[a].thenables = << PromiseRef(1), PromiseRef(2) >> /\ all[a].before = 0
        /\ rejectedOrder = << 1, 2 >> /\ result[1] # result[2]
        /\ Quiescent /\ Len(consumed) = 2
        /\ state[a] = "Rejected" /\ result[a] = result[1]

\* ------------------------------------------------------------------ Promise.race
\* The one call of Promise.race that a behaviour makes, at top level.
Race(thenables) ==
    /\ UserOp(Counted) /\ ~flushing
    /\ \A p \in PromiseSlots : ~race[p].made
    /\ Commit(Promise_race(Counted, thenables))

\* The order in which the deferreds are settled (history).
NoteSettled(s, p) ==
    IF state[p] = "Pending" /\ s.state[p] # "Pending"
    THEN [s EXCEPT !.settledOrder = Append(@, p)] ELSE s

\* resolve(x) and reject(r) of a deferred, at top level.
ResolveOrdered(p, x) ==
    /\ UserOp(Counted) /\ ~flushing /\ ctor[p] /\ ~race[p].made
    /\ Commit(NoteSettled(ResolveFn(NoteFirst(Counted, p, Event("resolve", x)), p, x), p))

RejectOrdered(p, r) ==
    /\ UserOp(Counted) /\ ~flushing /\ ctor[p] /\ ~race[p].made
    /\ Commit(NoteSettled(RejectFn(NoteFirst(Counted, p, Event("reject", r)), p, r), p))

\* A callback of race's done(resolve, reject) runs: it is library code, so
\* it runs in the step after the one that entered it.
RaceCallback ==
    /\ running.id # 0 /\ follow[running.id].all # 0
    /\ race[follow[running.id].all].made
    /\ LET s0 == [Cur EXCEPT !.running = NoHandler,
                             !.outcome[running.id] = Event("return", Undefined)]
           s1 == Promise_race_settle(s0, follow[running.id].all,
                                     state[running.promise] = "Fulfilled",
                                     result[running.promise])
       IN  Commit(Async_flushNext(Promise_unwrapReturn(s1, running, Undefined)))

NextRace ==
    \/ \E ts \in AllInputs : Race(ts)
    \/ \E p \in {1, 2}, x \in PlainValues : ResolveOrdered(p, x)
    \/ \E p \in {1, 2}, r \in Reasons : RejectOrdered(p, r)
    \/ Flush
    \/ FlushStep
    \/ RaceCallback

\* Two deferreds exist; user code gives them, and plain values, to
\* Promise.race, once, and settles them before and after that.
SpecRace == InitAll /\ [][NextRace]_vars

RacePromises == { a \in PromiseSlots : race[a].made }
SettledInputs(a) ==
    { i \in DOMAIN race[a].slaves : state[race[a].slaves[i]] # "Pending" }
SettleRank(p) == CHOOSE k \in DOMAIN settledOrder : settledOrder[k] = p
\* The input that was settled first, when all inputs are deferreds.
FirstToSettle(a) ==
    LET S == { race[a].slaves[i] : i \in SettledInputs(a) }
    IN  CHOOSE p \in S : \A q \in S : SettleRank(p) <= SettleRank(q)
\* The input whose settlement race observes first: the lowest-indexed of
\* those settled at the call, or else the first to settle after it.
FirstSeen(a) ==
    IF race[a].early # {}
    THEN race[a].slaves[CHOOSE i \in race[a].early : \A j \in race[a].early : i <= j]
    ELSE FirstToSettle(a)
OnlyPromises(a) == \A i \in DOMAIN race[a].thenables : race[a].thenables[i].t = "promise"

\* C31 as stated: the promise of race([p1, p2]) settles with the state and
\* result of the input that settled first, and race([]) never settles.
C31_RaceFirstSettled ==
    \A a \in RacePromises :
        /\ race[a].thenables = <<>> => state[a] = "Pending"
        /\ OnlyPromises(a) /\ state[a] # "Pending"
           => /\ SettledInputs(a) # {}
              /\ state[a] = state[FirstToSettle(a)]
              /\ result[a] = result[FirstToSettle(a)]

\* C31, amended: the promise of race settles only after an input has, with
\* the state and result of the input whose settlement it observes first (the
\* lowest-indexed of the inputs already settled at the call, otherwise the
\* first to settle), it is settled once the queues are drained, and
\* race([]) never settles.
C31_RaceFirstSeen ==
    \A a \in RacePromises :
        /\ race[a].thenables = <<>> => state[a] = "Pending"
        /\ state[a] # "Pending"
           => /\ SettledInputs(a) # {}
              /\ state[a] = state[FirstSeen(a)]
              /\ result[a] = result[FirstSeen(a)]
        /\ Quiescent /\ SettledInputs(a) # {} => state[a] # "Pending"

\* Both deferreds were given to race while pending, both were settled
\* afterwards, differently, and race has the outcome of the first.
C31_Witness ==
    \E a \in RacePromises :
        /\ race[a].early = {} /\ Len(settledOrder) = 2
        /\ { race[a].slaves[i] : i \in DOMAIN race[a].slaves } = {1, 2}
        /\ state[1] # state[2]
        /\ state[a] = state[settledOrder[1]] /\ result[a] = result[settledOrder[1]]
        /\ Quiescent

\* ------------------------------------------------------------------ finally()
InClosure == running.id # 0 /\ closure[running.id].kind = "return"

Runners == { h \in HandlerSlots : closure[h].kind = "runner" }

\* p.finally(handler), at top level.  A call makes two promises and two
\* Handlers, and a third Handler when its handler returns a pending promise:
\* there is room for those.
Finally(p) ==
    /\ UserOp(Counted) /\ ~flushing
    /\ 3 * (Cardinality(Runners) + 1) \in HandlerSlots
    /\ Commit(Promise_finally(Counted, p))

\* The handler given to finally() returns v, or throws e.
HandlerReturn(v) ==
    /\ running.id # 0 /\ closure[running.id].kind = "runner"
    /\ LET s0 == [Promise_finally_runner(Cur, running)
                      EXCEPT !.running = NoHandler,
                             !.outcome[running.id] = Event("return", v)]
       IN  Commit(Async_flushNext(Promise_unwrapReturn(s0, running, v)))

HandlerThrow(e) ==
    /\ running.id # 0 /\ closure[running.id].kind = "runner"
    /\ LET s0 == [Promise_finally_runner(Cur, running)
                      EXCEPT !.running = NoHandler,
                             !.outcome[running.id] = Event("throw", e)]
       IN  Commit(Async_flushNext(Promise_unwrapThrow(s0, running, e)))

\* The closure of return() runs: it returns the value it captured.
ReturnCallback ==
    /\ InClosure
    /\ LET v  == closure[running.id].v
           s0 == [Cur EXCEPT !.running = NoHandler,
                             !.outcome[running.id] = Event("return", v)]
       IN  Commit(Async_flushNext(Promise_unwrapReturn(s0, running, v)))

\* Two deferreds: finally() is called on the first, before or after it is
\* settled; the handler returns nothing, a value or the second deferred, or
\* throws; the deferreds are settled at top level.
NextFinally ==
    \/ Finally(1)
    \/ \E p \in {1, 2} : ResolveOrdered(p, ResVal)
    \/ \E p \in {1, 2}, r \in Reasons : RejectOrdered(p, r)
    \/ Flush
    \/ FlushStep
    \/ \E v \in {Undefined, PromiseRef(2)} : HandlerReturn(v)
    \/ \E e \in Thrown : HandlerThrow(e)
    \/ ReturnCallback

SpecFinally == InitAll /\ [][NextFinally]_vars

HandlerCalls(h) == Cardinality({ i \in DOMAIN invoked : invoked[i].id = h })
\* The promise the handler returned, 0 when it returned something else.
Awaited(h) ==
    IF outcome[h].kind = "return" /\ outcome[h].v.t = "promise" THEN outcome[h].v.n ELSE 0
SameAs(r, p) == state[r] = state[p] /\ result[r] = result[p]
RejectedWith(r, e) == state[r] = "Rejected" /\ result[r] = e

\* C32: the handler of p.finally(h) is called at most once, only when p is
\* settled and with p as argument, and once when p is settled and the
\* queues are drained; the promise of finally() stays pending while the
\* promise h returned is pending, is rejected with the error h threw or the
\* reason of the rejected promise h returned, and otherwise has p's state
\* and result.
C32_Finally ==
    \A h \in Runners :
        LET p == closure[h].v.n
            r == closure[h].out
            d == Awaited(h)
        IN  /\ HandlerCalls(h) <= 1
            /\ HandlerCalls(h) = 1 => state[p] # "Pending"
            /\ outcome[h].kind # "none" => closure[h].arg = PromiseRef(p)
            /\ Quiescent /\ state[p] # "Pending"
               => HandlerCalls(h) = 1 /\ outcome[h].kind # "none"
            /\ state[r] # "Pending"
               => /\ outcome[h].kind # "none"
                  /\ IF outcome[h].kind = "throw" THEN RejectedWith(r, outcome[h].v)
                     ELSE IF d = 0 THEN SameAs(r, p)
                     ELSE /\ state[d] # "Pending"
                          /\ IF state[d] = "Rejected"
                             THEN RejectedWith(r, result[d]) ELSE SameAs(r, p)
            /\ Quiescent /\ outcome[h].kind # "none" /\ (d # 0 => state[d] # "Pending")
               => state[r] # "Pending"

\* p was rejected, the handler returned a pending promise that was fulfilled
\* later, and the promise of finally() is rejected with p's reason.
C32_Witness ==
    \E h \in Runners :
        /\ Awaited(h) = 2 /\ state[2] = "Fulfilled" /\ state[1] = "Rejected"
        /\ settledOrder = <<1, 2>>
        /\ RejectedWith(closure[h].out, result[1])
        /\ Quiescent

\* ------------------------------------------------------------------ Trace.setSource
\* The Traces that user code made, and the limits it configured: below the
\* number of setSource calls a behaviour can make.
TraceSlots == 1..MaxOps
TraceLimits == 1..(MaxOps - 2)

\* a.setSource(b)
SetSource(a, b) ==
    /\ UserOp(Counted)
    /\ Commit(Trace_setSource(Counted, a, b))

RECURSIVE NewTraces(_, _)
NewTraces(s, n) == IF n = 0 THEN s ELSE NewTraces(Trace_new(s), n - 1)

InitTrace ==
    \E limit \in TraceLimits :
        StartIn(NewTraces([Empty EXCEPT !.traceLimit = limit], MaxOps))

NextTrace == \E a, b \in TraceSlots : SetSource(a, b)

SpecTrace == InitTrace /\ [][NextTrace]_vars

SetLongTraces(enable) ==
    /\ UserOp(Counted) /\ enable # longTraces
    /\ Commit([Counted EXCEPT !.longTraces = enable])

\* Deferreds and then() chains made while long traces are switched on and
\* off, at top level and inside callbacks.
NextLong ==
    \/ \E b \in BOOLEAN : SetLongTraces(b)
    \/ Construct(Defer)
    \/ \E p \in Created : ResolveCall(p, ResVal)
    \/ \E p \in Created, c \in Callbacks : Then(p, c[1], c[2])
    \/ Flush
    \/ FlushStep
    \/ CallbackReturn(ResVal)
    \/ CallbackThrow(ThrowVal)

SpecLong == Init /\ [][NextLong]_vars

\* C35: a promise that then() creates off a promise that has a Trace has a
\* Trace too, whether long traces are on or off at that moment.
C35_ChildrenTraced ==
    [][\A p \in Created :
          /\ \E c \in Callbacks : Then(p, c[1], c[2])
          /\ nextId' = nextId + 1
          /\ ptrace[p] # 0
          => ptrace'[nextId'] # 0]_vars

\* ------------------------------------------------------------------ unwrappingPromise
\* C36: unwrappingPromise is set exactly while one callback of then() or
\* done() runs (to the slave, or to the promise itself for done()), so it is
\* undefined whenever a callback is about to be invoked and again after the
\* callback returned or threw, and the assertion guarding it never fails.
C36_UnwrappingFence ==
    /\ (unwrapping # 0) <=> (running.id # 0)
    /\ running.id # 0
       => unwrapping = IF running.done THEN running.promise ELSE running.slave
    /\ ~failed

\* A callback threw, the slot is empty again, and the next callback runs.
C36_Witness ==
    /\ running.id # 0 /\ unwrapping # 0
    /\ \E h \in HandlerSlots : outcome[h].kind = "throw"

\* ------------------------------------------------------------------ no recursion
QueuedHandler(ring, h) ==
    \E j \in DOMAIN ring : ring[j].cb = "unwrap" /\ ring[j].h = h

\* C37: no step processes more than one Handler, a Handler is processed only
\* by the flush loop, as the queue entry at the head of the ring and with no
\* callback running, and the step that settles a promise processes none of
\* its Handlers: it makes each of them a queue entry of its own.
C37_NoRecursiveUnwrap ==
    [][/\ consumed' # consumed
          => /\ flushing /\ running.id = 0 /\ mainRing # <<>>
             /\ Head(mainRing).cb = "unwrap"
             /\ consumed' = Append(consumed, Head(mainRing).h)
       /\ \A p \in PromiseSlots :
             state'[p] # state[p]
             => \A i \in DOMAIN handlers[p] : QueuedHandler(mainRing', handlers[p][i])]_vars

\* A chain of two then() calls was processed: the Handler of the second ran
\* its callback after, and not inside, the callback of the first.
C37_Witness ==
    \E i, j \in DOMAIN consumed :
        /\ i < j /\ consumed[i].slave # 0 /\ consumed[j].promise = consumed[i].slave
        /\ outcome[consumed[i].id].kind = "return"
        /\ outcome[consumed[j].id].kind # "none"

\* ------------------------------------------------------------------ interrupted batch
\* Callback t is part of the batch of idle callbacks that began at position
\* b of the order of invocation.
InBatch(t, b) == b > 0 /\ Idle(t) /\ enq[t].at < b

\* C38: when an idle callback throws while its batch is being processed,
\* every idle callback of that batch that had not run yet runs, in a later
\* flush, before every callback (normal or idle) enqueued since the batch
\* began, whether before or after the exception.
C38_BatchFinishedAfterThrow ==
    \A t \in { x \in 1..nextH : outcome[x].kind = "throw" /\ Idle(x) } :
        LET k == Pos(t)
            b == BatchStart(k)
        IN  InBatch(t, b)
            => \A i \in { x \in 1..nextH : InBatch(x, b) } :
                  LET pi == Pos(i)
                  IN  pi = 0 \/ pi > k
                      => \A m \in DOMAIN invoked :
                            enq[invoked[m].id].at >= b => pi \in 1..(m - 1)

\* The first of a batch of two idle callbacks enqueued an idle callback and
\* threw; a second flush ran the other callback of the batch and then the
\* new one.
C38_Witness ==
    /\ Quiescent /\ Len(invoked) = 3 /\ Len(escaped) = 1
    /\ outcome[invoked[1].id].kind = "throw"
    /\ Idle(invoked[1].id) /\ Idle(invoked[2].id) /\ enq[invoked[2].id].at = 0
    /\ Idle(invoked[3].id) /\ enq[invoked[3].id].by = invoked[1].id

\* ------------------------------------------------------ CallQueue and Ring
\* The rings in detail: each Ring is a list of CallQueues of bounded capacity
\* and a `_current` queue (0: undefined); drained queues go to a shared pool.
\* `r` names a ring by its role at the time of the call: "main" or "idle".

\* CallQueue.push: store the pair; s.ret tells whether there is space left.
CallQueue_push(s, q, c) ==
    LET s1 == [s EXCEPT !.callQueues[q].items = Append(@, c)]
    IN  [s1 EXCEPT !.ret = Len(s1.callQueues[q].items) < MaxQueue]

CallQueue_empty(s, q) == s.callQueues[q].first = Len(s.callQueues[q].items)

\* The end of CallQueue.flush: the queue is reset to its beginning.
CallQueue_reset(s, q) ==
    [s EXCEPT !.callQueues[q].items = <<>>, !.callQueues[q].first = 0]

\* The first lines of Ring.enqueue: make sure _current points to a queue,
\* from the pool or a new one, and add it to the ring (at the front if
\* `front`, which the code never does).
Ring_obtain(s, r, front) ==
    IF s.rings[r].current # 0 THEN s
    ELSE LET q  == IF s.pool # <<>> THEN s.pool[Len(s.pool)]
                   ELSE Len(s.callQueues) + 1
             s1 == IF s.pool # <<>>
                   THEN [s EXCEPT !.pool = SubSeq(@, 1, Len(@) - 1),
                                  !.callQueues[q].reused = TRUE]
                   ELSE [s EXCEPT !.callQueues = Append(@, NewCallQueue)]
         IN  [s1 EXCEPT !.rings[r].current = q,
                        !.rings[r].ring = IF front THEN << q >> \o @
                                          ELSE Append(@, q)]

\* Faulty enqueue, for comparison: a queue it obtains goes to the front of
\* the ring.
Ring_enqueue_front(s, r, c) ==
    LET s1 == Ring_obtain(s, r, TRUE)
        s2 == CallQueue_push(s1, s1.rings[r].current, c)
    IN  IF ~s2.ret THEN [s2 EXCEPT !.rings[r].current = 0] ELSE s2

\* Ring.enqueue.
Ring_enqueue(s, r, c) ==
    LET s1 == Ring_obtain(s, r, FALSE)
        s2 == CallQueue_push(s1, s1.rings[r].current, c)
    IN  IF ~s2.ret THEN [s2 EXCEPT !.rings[r].current = 0] ELSE s2

Ring_empty(s, r) ==
    Len(s.rings[r].ring) = 1 /\ CallQueue_empty(s, s.rings[r].ring[1])

\* Async.enqueue (r = "main") and Async.enqueueIdle (r = "idle").
Rings_enqueue(s, r, c) ==
    Ring_enqueue(IF ~s.flushing /\ ~s.scheduled THEN Async_schedule(s) ELSE s, r, c)

\* The `finally` of Async.flush.
Rings_flushFinally(s) ==
    LET s1 == [s EXCEPT !.flushing = FALSE]
    IN  IF (~Ring_empty(s1, "main") \/ ~Ring_empty(s1, "idle")) /\ ~s1.scheduled
        THEN Async_schedule(s1) ELSE s1

\* Async.flush between two callbacks, down to CallQueue.flush: while the
\* first queue of the main ring has a pair left, that pair is next.  A drained
\* queue is reset; if it is not the last of the ring it moves to the pool,
\* otherwise Ring.flush ends (_current = _ring[0]) and Async.flush stops when
\* the idle ring is empty too, or swaps the rings and goes on.
RECURSIVE Rings_flushLoop(_)
Rings_flushLoop(s) ==
    LET q == s.rings.main.ring[1]
    IN  IF ~CallQueue_empty(s, q) THEN s
        ELSE LET s1 == CallQueue_reset(s, q)
             IN  IF Len(s1.rings.main.ring) > 1
                 THEN Rings_flushLoop([s1 EXCEPT !.pool = Append(@, q),
                                                 !.rings.main.ring = Tail(@)])
                 ELSE LET s2 == [s1 EXCEPT !.rings.main.current = q]
                      IN  IF Ring_empty(s2, "idle") THEN Rings_flushFinally(s2)
                          ELSE Rings_flushLoop([s2 EXCEPT !.rings.main = s2.rings.idle,
                                                          !.rings.idle = s2.rings.main])

\* What follows a callback inside Async.flush.
Rings_flushNext(s) ==
    IF s.exc THEN Rings_flushFinally([s EXCEPT !.exc = FALSE,
                                               !.escaped = Append(@, s.err)])
    ELSE IF s.running.id # 0 THEN s
    ELSE Rings_flushLoop(s)

\* A library call that user code may still make: one more than elsewhere, so
\* that a queue can overflow and be drained, and the next one overflow too.
RingOp(s) == UserCtx /\ nOps < MaxOps + 1 /\ s.nOps = nOps + 1

\* enqueue(callback, arg) as user code calls it here: the callback gets the
\* next number, and the argument is the number of the callback that makes the
\* call (0: user code at top level).
RingCall == Call("user", [NoHandler EXCEPT !.id = nextH + 1], running.id)

RingEnqueue ==
    /\ RingOp(Counted)
    /\ Commit(Rings_enqueue([Counted EXCEPT !.nextH = @ + 1], "main", RingCall))

RingEnqueueIdle ==
    /\ RingOp(Counted)
    /\ Commit(Rings_enqueue([Counted EXCEPT !.nextH = @ + 1], "idle", RingCall))

\* Promise.flush() at top level.
RingFlush ==
    /\ ~flushing
    /\ Commit(Rings_flushLoop([Cur EXCEPT !.flushing = TRUE]))

\* CallQueue.flush takes the next pair, clears its place and calls it.
RingStep ==
    /\ flushing /\ running.id = 0
    /\ LET q == rings.main.ring[1]
           k == callQueues[q].first + 1
       IN  Commit(Rings_flushNext(RunCall(
               [Cur EXCEPT !.callQueues[q].items[k] = Undefined,
                           !.callQueues[q].first = k], callQueues[q].items[k])))

RingCbReturn ==
    /\ running.id # 0
    /\ Commit(Rings_flushNext([Cur EXCEPT !.running = NoHandler,
                  !.outcome[running.id] = Event("return", Undefined)]))

RingCbThrow(e) ==
    /\ running.id # 0
    /\ Commit(Rings_flushNext([Cur EXCEPT !.running = NoHandler,
                  !.outcome[running.id] = Event("throw", e),
                  !.exc = TRUE, !.err = e]))

NextRing ==
    \/ RingEnqueue
    \/ RingEnqueueIdle
    \/ RingFlush
    \/ RingStep
    \/ RingCbReturn
    \/ \E e \in Thrown : RingCbThrow(e)

SpecRing == Init /\ [][NextRing]_vars

\* The callbacks a queue still holds, and those a ring holds over all its
\* queues from the front of the ring to its end, by number.
RECURSIVE Waiting(_, _)
Waiting(qs, k) ==
    IF k > Len(qs) THEN <<>>
    ELSE LET q == callQueues[qs[k]]
         IN  [ i \in 1..(Len(q.items) - q.first) |-> q.items[q.first + i].h.id ]
                 \o Waiting(qs, k + 1)
RECURSIVE WaitingNext(_, _)
WaitingNext(qs, k) ==
    IF k > Len(qs) THEN <<>>
    ELSE LET q == callQueues'[qs[k]]
         IN  [ i \in 1..(Len(q.items) - q.first) |-> q.items[q.first + i].h.id ]
                 \o WaitingNext(qs, k + 1)
OnRing(r) == Waiting(rings[r].ring, 1)
OnRingNext(r) == WaitingNext(rings'[r].ring, 1)

\* C39: each ring is a first-in first-out queue of callbacks, whatever the
\* queues it is made of: enqueue() puts the callback behind all callbacks the
\* main ring holds and enqueueIdle() behind all the idle ring holds; the
\* callback that flush() calls next is the one at the front of the main ring;
\* and the start of a flush and the end of a callback call nothing and keep
\* the callbacks held in their order (the idle ring becomes the main ring
\* when the main ring holds none), with a callback at the front of the main
\* ring while the flush goes on.  So callbacks enqueued on one ring run in
\* exactly their enqueue order.
C39_RingFifo ==
    [][ /\ RingEnqueue
            => OnRingNext("main") = Append(OnRing("main"), nextH')
               /\ OnRingNext("idle") = OnRing("idle")
        /\ RingEnqueueIdle
            => OnRingNext("idle") = Append(OnRing("idle"), nextH')
               /\ OnRingNext("main") = OnRing("main")
        /\ RingStep
            => LET id == invoked'[Len(invoked')].id
               IN  /\ Len(invoked') = Len(invoked) + 1
                   /\ id = Head(OnRing("main"))
                   /\ OnRingNext("main") \o OnRingNext("idle")
                          = Tail(OnRing("main")) \o OnRing("idle")
        /\ RingFlush \/ RingCbReturn \/ (\E e \in Thrown : RingCbThrow(e))
            => /\ invoked' = invoked
               /\ OnRingNext("main") \o OnRingNext("idle")
                      = OnRing("main") \o OnRing("idle")
               /\ flushing' => OnRingNext("main") # <<>>
      ]_vars

\* During a flush, the main ring spans two queues with callbacks waiting in
\* both: the second queue came out of the pool, and the callback waiting in it
\* was enqueued by a callback, that is, while the ring was being flushed.
C39_Witness ==
    /\ flushing /\ Len(rings.main.ring) = 2
    /\ ~CallQueue_empty(Cur, rings.main.ring[1])
    /\ LET q == callQueues[rings.main.ring[2]]
       IN  /\ q.reused /\ q.first < Len(q.items)
           /\ q.items[Len(q.items)].p # 0

\* ------------------------------------------------------ notifications scheduled
\* The notifications scheduled for p so far, in the order of scheduling: those
\* delivered, then those still queued (both handlers go through
\* Async.enqueue, so they are delivered in the order they were queued).
Scheduled(p) ==
    LET queued == SelectSeq(mainRing \o idleRing,
                      LAMBDA c : c.cb \in {"possiblyUnhandled", "rejectionHandled"})
    IN  SelectSeq(notified \o [ i \in DOMAIN queued |->
                                  [kind |-> queued[i].cb, p |-> queued[i].p] ],
                  LAMBDA n : n.p = p)

\* C40: for every promise the possibly-unhandled-rejection handler is scheduled
\* at most once and the rejection-handled handler at most once, and the
\* rejection-handled handler only after the possibly-unhandled one was
\* scheduled for that promise: the notifications scheduled for a promise are
\* none, the first alone, or the first and then the second.
C40_ScheduledOnce ==
    \A p \in 1..nextId :
        Scheduled(p) \in { <<>>, << PossiblyUnhandled(p) >>,
                           << PossiblyUnhandled(p), RejectionHandledNote(p) >> }

\* A promise reported as possibly unhandled got a handler afterwards: its
\* rejection-handled notification is scheduled and not yet delivered.
C40_Witness ==
    \E p \in 1..nextId :
        /\ Scheduled(p) = << PossiblyUnhandled(p), RejectionHandledNote(p) >>
        /\ Notes(p) = << PossiblyUnhandled(p) >>
        /\ \E i \in DOMAIN mainRing : mainRing[i] = Call("rejectionHandled", NoHandler, p)

====
